---- MODULE Spec2Model ----
(***************************************************************************)
(* ModEA: the generational engine (_BaseAlgorithm), the local-restart      *)
(* scheduler (localRestartAlgorithm), the configuration code, the samplers *)
(* and the adaptation rules of the Parameters object.                      *)
(*                                                                         *)
(* The specifications share the variables:                                 *)
(*   SpecEngine          one call of baseAlgorithm, any configuration      *)
(*   SpecRestart         localRestartAlgorithm driving baseAlgorithm       *)
(*   SpecBatchRestart    the same over whole batch runs, longer schedules  *)
(*   SpecAdapt           the three covariance adaptation operations        *)
(*   SpecConfig          _CustomizedES.__init__ and customizedES           *)
(*   SpecMirrored, SpecOrthogonal, SpecSobol   one sampler object          *)
(*   SpecMirroredEngine  the engine mutating with a Mirrored sampler       *)
(*   SpecOneFifth, SpecFitnessHistory   the Parameters histories           *)
(* A specification leaves the variables of the others untouched.           *)
(***************************************************************************)
EXTENDS Integers, Sequences, FiniteSets, TLC

\* ------------------------------------------------------------------ bounds
MaxBudget == 5
MaxLambda == 4
MaxMu == 2
MaxFit == 1

\* Fitness values an evaluation can return; Inf is float('inf'), above all.
Fitness == 0 .. MaxFit
Inf == MaxFit + 1

Min2(a, b) == IF a < b THEN a ELSE b
Max2(a, b) == IF a > b THEN a ELSE b

RECURSIVE Repeat(_, _)
\* Python's [x] * k: k copies of x, the empty list when k <= 0.
Repeat(x, k) == IF k <= 0 THEN << >> ELSE <<x>> \o Repeat(x, k - 1)

RECURSIVE SeqSum(_)
SeqSum(s) == IF s = << >> THEN 0 ELSE Head(s) + SeqSum(Tail(s))

RECURSIVE SeqMin(_)
\* Python's min() of a non-empty list.
SeqMin(s) == IF Len(s) = 1 THEN s[1] ELSE Min2(Head(s), SeqMin(Tail(s)))

\* ------------------------------------------------------------------- state
VARIABLES
    \* arguments of baseAlgorithm
    budget,             \* evaluations allowed for this call
    parallel,           \* batch evaluation (disables one-at-a-time evaluation)
    parameters,         \* [lambda_, mu_int, seq_cutoff, tpa, sequential, elitist, sigma_mean]
    \* _BaseAlgorithm: fields and the locals of __call__
    pc,                 \* position in __call__: "idle", "loop", "eval", "select",
                        \* "recombine", "tpa", "done", "raised"
    used_budget,
    i,                  \* the loop variable i of __call__ (-1: not bound yet)
    pos,                \* enumerate() position inside the one-at-a-time loop
    new_population,     \* len(self.new_population)
    improvement_found,
    fitnesses,          \* lowest fitness among this generation's evaluated offspring
    population,         \* [len, best]: size and population[0].fitness
    best_individual,    \* [fitness, run, at]: fitness, the run that produced it and the
                        \* generation it was selected in (0: from the initial population)
    generation_size, sigma_over_time, fitness_over_time,
    stopped_by,         \* how the loop was left: "none", "budget", "restart", "while"
    bad_size,           \* the 'Bad population size!' message has been printed
    evaluated,          \* genotypes handed to fitnessFunction in this call
    adaptations         \* calls of self.mutateParameters in this call

engineVars == << budget, parallel, parameters, pc, used_budget, i, pos, new_population,
                 improvement_found, fitnesses, population, best_individual,
                 generation_size, sigma_over_time, fitness_over_time, stopped_by,
                 bad_size, evaluated, adaptations >>

VARIABLES
    \* localRestartAlgorithm: its locals
    spc,                \* position: "loop" (at the while test), "running", "returned"
    parameter_opts,     \* [n, lambda_, local_restart, sigma, tpa, sequential, elitist,
                        \*  seq_cutoff]; lambda_ = 0 stands for None
    local_budget,
    best_fitness,
    total_results,      \* << >>, or <<generation sizes, sigma trace, fitness trace, best>>
    lambda_init, lambda_large,
    small_budget, large_budget,   \* << >> stands for None, <<v>> for the number v
    regime,             \* "none" before BIPOP first chooses
    runs                \* calls of baseAlgorithm that have returned

schedVars == << spc, parameter_opts, local_budget, best_fitness, total_results,
                lambda_init, lambda_large, small_budget, large_budget, regime, runs >>

VARIABLES
    \* the Parameters object, as the covariance adaptation rules use it.  A matrix
    \* is kept as its numerical class, which is all the degeneracy checks read:
    \*   "identity"   np.eye(n)
    \*   "valid"      finite, condition number inside (1e-16, 1e16)
    \*   "illcond"    finite, real eigenvalues, condition number outside that range
    \*   "nonfinite"  some entry is nan or infinite
    \* and a step size as "in" (inside (1e-16, 1e16)), "low" or "high".
    C,                  \* covariance matrix
    BD,                 \* B and D: "identity", or "eig" (the decomposition of C)
    A,                  \* Cholesky factor
    A_inv,              \* its inverse, as the active update keeps it
    path,               \* self.s, the search path of the active update: "zero" or "nonzero"
    p_c,                \* evolution path: "zero" or "nonzero"
    c_cov_neg,          \* kept as 1 / c_cov_neg, rounded down: see NegativeCoefficient
    sigma, sigma_mean,
    p_success,          \* "low" (< p_target), "target", "mid", "high" (>= p_thresh)
    lambda_success,
    s_mean, last_z,     \* the mutation's vectors, by size: see RecordMutation
    fitness_history,    \* len(self.fitness_history)
    last_call           \* [op, degenerated, check]: the operation that returned last,
                        \* and the degeneracy check it ended with ("none" without one)

adaptVars == << C, BD, A, A_inv, path, p_c, c_cov_neg, sigma, sigma_mean, p_success, lambda_success, s_mean,
                last_z, fitness_history, last_call >>

VARIABLES
    \* the configuration code (_CustomizedES.__init__ / customizedES) and the
    \* initial population it hands to the engine
    cpc,                \* "start", "configured", "populated"
    request,            \* the caller's [n, lambda_ (0 for None), mu (0 for None), tpa,
                        \*  selection, sequential, mirrored, orthogonal, base_sampler,
                        \*  halton_available]
    config,             \* << >>, or <<[lambda_, eff_lambda, mu, mu_int, seq_cutoff,
                        \*  orth_lambda, sampler]>> as derived
    wcm,                \* the starting point: a coordinate per dimension
    genotypes           \* the genotype of every individual of the initial population

configVars == << cpc, request, config, wcm, genotypes >>

VARIABLES
    \* a sampler object (Sampling.py)
    sampler_kind,       \* "mirrored" or "orthogonal"
    sampler_n,          \* self.n
    mirror_next,        \* MirroredSampling
    last_sample,        \* MirroredSampling: << >> for None, or <<vector>>
    base_draws,         \* calls of base_sampler.next() made by the Mirrored sampler
    num_samples,        \* OrthogonalSampling
    current_sample,     \* OrthogonalSampling
    samples,            \* OrthogonalSampling: << >> for None, or the stored batch
    returned,           \* MirroredSampling: what its calls of next() returned, in order
    sampler_calls,      \* OrthogonalSampling: calls of next() that have returned
    served              \* OrthogonalSampling: << >>, or <<what the last call returned>>

samplerVars == << sampler_kind, sampler_n, mirror_next, last_sample, base_draws,
                  num_samples, current_sample, samples, returned, sampler_calls,
                  served >>

VARIABLES
    \* the Parameters object, as the 1/5-th success rule uses it
    param_n,            \* self.n
    success_history     \* self.success_history: N = 10 * n entries, each 0 or 1

historyVars == << param_n, success_history >>

VARIABLES
    \* a QuasiGaussianSobolSampling object
    sobol_pc,           \* "unused", "new" (being constructed), "constructed", "raised"
    sobol_n,            \* self.n
    seed_arg,           \* the seed argument: << >> for None, or <<k>>
    seed,               \* self.seed
    passed              \* the index given to i4_sobol by the last next(): << >> before

sobolVars == << sobol_pc, sobol_n, seed_arg, seed, passed >>

VARIABLES
    \* the Parameters object's fitness history, entry by entry
    fitness_values,     \* self.fitness_history
    recorded            \* every fitness given to addToFitnessHistory, in order

fitnessVars == << fitness_values, recorded >>

\* The components that are modelled on their own.
componentVars == << configVars, samplerVars, historyVars, sobolVars, fitnessVars >>

\* What the configuration code and what a sampler leave alone.
exceptConfig == << engineVars, schedVars, adaptVars, samplerVars, historyVars, sobolVars,
                  fitnessVars >>
exceptSampler == << engineVars, schedVars, adaptVars, configVars, historyVars, sobolVars,
                   fitnessVars >>

\* What the generational engine does not touch.
outside == << schedVars, adaptVars, componentVars >>

vars == << engineVars, schedVars, adaptVars, componentVars >>

\* The configuration variables when no configuration is followed.
ConfigUnused ==
    /\ cpc = "unused"
    /\ request = << >>
    /\ config = << >>
    /\ wcm = << >>
    /\ genotypes = << >>

\* The sampler variables when no sampler is followed.
SamplerUnused ==
    /\ sampler_kind = "unused"
    /\ sampler_n = 0
    /\ mirror_next = FALSE
    /\ last_sample = << >>
    /\ base_draws = 0
    /\ num_samples = 0
    /\ current_sample = 0
    /\ samples = << >>
    /\ returned = << >>
    /\ sampler_calls = 0
    /\ served = << >>

\* The success history when the 1/5-th rule is not followed.
HistoryUnused ==
    /\ param_n = 0
    /\ success_history = << >>

\* The Sobol sampler's variables when none is followed.
SobolUnused ==
    /\ sobol_pc = "unused"
    /\ sobol_n = 0
    /\ seed_arg = << >>
    /\ seed = 0
    /\ passed = << >>

\* The entries of the fitness history when they are not followed.
FitnessUnused ==
    /\ fitness_values = << >>
    /\ recorded = << >>

ComponentsUnused ==
    ConfigUnused /\ SamplerUnused /\ HistoryUnused /\ SobolUnused /\ FitnessUnused

\* ------------------------------------------------------- collaborators
\* Rec.weighted and friends: lambda_ offspring from the current parents.
Recombine(params) == params.lambda_

\* A fresh FloatIndividual has no fitness yet: its fitness is the 'unset' value inf.
FreshFitness == Inf

\* Sel.best: the pool is parents + offspring under plus selection and the
\* offspring alone under comma selection; the mu_int lowest survive, best first.
\* pop and the result are [len, best]; n_off, off_best describe the offspring.
Select(pop, n_off, off_best, params) ==
    LET pool_len  == IF params.elitist THEN pop.len + n_off ELSE n_off
        pool_best == IF params.elitist THEN Min2(pop.best, off_best) ELSE off_best
    IN  [len |-> Min2(params.mu_int, pool_len), best |-> pool_best]

\* mu_int as the configuration code derives it from mu = 0.5 and the effective lambda.
MuInt(lambda_, tpa) ==
    LET eff_lambda == IF tpa THEN lambda_ - 2 ELSE lambda_
    IN  1 + ((eff_lambda - 1) \div 2)

\* ------------------------------------------------ the Parameters object
\* 1 / c_cov_neg for the default c_cov_neg = 0.4 / (n**1.6 + 1), rounded down, in
\* dimension 2: 10.07..  Against a whole number q, c_cov_neg * q > 1 is q > 10.
DefaultNegInverse == 10

\* Parameters.__init__: C, B, D, A and A_inv are np.eye(n), p_c and s are zero,
\* sigma = sigma_mean = 1,
\* p_success = p_target, s_mean is None and last_z is zero.
AdaptInit ==
    /\ C = "identity"
    /\ BD = "identity"
    /\ A = "identity"
    /\ A_inv = "identity"
    /\ path = "zero"
    /\ p_c = "zero"
    /\ c_cov_neg = DefaultNegInverse
    /\ sigma = "in"
    /\ sigma_mean = "in"
    /\ p_success = "target"
    /\ lambda_success = FALSE
    /\ s_mean = "none"
    /\ last_z = "zero"
    /\ fitness_history = 0
    /\ last_call = [op |-> "none", degenerated |-> FALSE, check |-> "none"]

\* Vectors by size: "zero"; "moderate" (entries of ordinary size); "large"
\* (one entry near 1e17, the others ordinary: squares are finite); "overflow"
\* (an entry whose square overflows to inf).
VectorSizes == { "zero", "moderate", "large", "overflow" }

\* last_z, whose squared length the negative update reads, is "moderate" with
\* |z|^2 = 10, or "small", an ordinary vector with |z|^2 = 1.
MutationSizes == VectorSizes \cup { "small" }

\* Stand-ins for a squared length near 1e34 and for inf.
Huge == 1000
Infinite == 1000000

\* 2 * z_squared - 1
TwiceSquaredLess1(z) ==
    CASE z = "zero"     -> -1
      [] z = "small"    -> 1
      [] z = "moderate" -> 19
      [] z = "large"    -> Huge
      [] z = "overflow" -> Infinite

\* len(self.fitness_history) > 5 is cut back to 5
HistoryLimit == 5

\* What a mutation and its evaluation leave for the adaptation: s_mean and last_z
\* recorded by the mutation, lambda_success as addToSuccessHistory sets it, and
\* addToFitnessHistory.  (The covariance adaptations never read success_history,
\* whose entries are followed with the 1/5-th rule below.)
RecordMutation ==
    /\ \E sm \in VectorSizes, z \in MutationSizes, success \in BOOLEAN :
          /\ s_mean' = sm
          /\ last_z' = z
          /\ lambda_success' = success
    /\ fitness_history' = Min2(fitness_history + 1, HistoryLimit)
    /\ UNCHANGED << C, BD, A, A_inv, path, p_c, c_cov_neg, sigma, sigma_mean, p_success,
                    last_call >>
    /\ UNCHANGED << engineVars, schedVars, componentVars >>

\* np.min(np.isfinite(M)) == 0 fails
IsFinite(M) == M # "nonfinite"

\* 1e-16 < np.linalg.cond(M) < 1e16
CondInRange(M) == M \in { "identity", "valid" }

\* 1e-16 < sigma_mean < 1e16
SigmaInRange(sg) == sg = "in"

\* np.isreal(np.sqrt(eigenvalues of M)).all(): M is symmetric, its eigenvalues
\* are real, and numpy's square root of a negative real is nan, which is real.
SqrtEigReal(M) == TRUE

\* C * (1 - 1/tau_c) + (1/tau_c) * s_mean s_mean^T, by class.  With a zero or
\* moderate s_mean the result stays well conditioned from the identity, and
\* goes on as it was or drifts otherwise; a large s_mean (1e10 in one entry) puts
\* a 1e20 beside entries of size 1; an overflowing one puts inf into C.
CovarianceUpdate(M, sm) ==
    IF sm = "overflow" THEN { "nonfinite" }
    ELSE IF sm = "large" THEN { "illcond" }
    ELSE IF M = "identity" THEN { "valid" }
    ELSE { "valid", "illcond" }

\* checkDegenerated: the tests that set degenerated
Degenerated(M, sg) ==
    IF ~IsFinite(M) THEN TRUE
    ELSE IF ~SigmaInRange(sg) THEN TRUE
    ELSE ~SqrtEigReal(M)

\* checkCholeskyDegenerated: the tests that set degenerated
CholeskyDegenerated(M, sg) ==
    IF ~IsFinite(M) THEN TRUE
    ELSE IF ~CondInRange(M) THEN TRUE
    ELSE ~SigmaInRange(sg)

\* adaptCovarianceMatrix, with checkDegenerated.  s_mean must have been recorded.
AdaptCovarianceMatrix ==
    /\ s_mean # "none"
    /\ \E M \in CovarianceUpdate(C, s_mean) :
          LET degenerated == Degenerated(M, sigma_mean)
          IN  /\ C' = IF degenerated THEN "identity" ELSE M
              /\ BD' = IF degenerated THEN "identity" ELSE "eig"
              /\ sigma_mean' = IF degenerated THEN "in" ELSE sigma_mean
              /\ last_call' = [op |-> "covariance", degenerated |-> degenerated,
                              check |-> "checkDegenerated"]
    /\ UNCHANGED << A, A_inv, path, p_c, c_cov_neg, sigma, p_success, lambda_success, s_mean,
                    last_z,
                    fitness_history >>
    /\ UNCHANGED << engineVars, schedVars, componentVars >>

\* p_success after (1 - c_p) * p_success + c_p * success, c_p = 1/12, by class:
\* a success moves it up by (1 - p)/12, a failure down by p/12.
SmoothedSuccess(p, success) ==
    IF success
    THEN CASE p = "low"    -> { "low", "mid" }
           [] p = "target" -> { "mid" }
           [] p = "mid"    -> { "mid", "high" }
           [] p = "high"   -> { "high" }
    ELSE CASE p = "low"    -> { "low" }
           [] p = "target" -> { "low" }
           [] p = "mid"    -> { "low", "mid" }
           [] p = "high"   -> { "mid", "high" }

\* sigma after sigma *= exp(x) where x has the sign of p_success - p_target.
SigmaStep(sg, p) ==
    IF p = "target" THEN { sg }
    ELSE IF p = "low"
         THEN CASE sg = "low"  -> { "low" }
                [] sg = "in"   -> { "in", "low" }
                [] sg = "high" -> { "high", "in" }
         ELSE CASE sg = "low"  -> { "low", "in" }
                [] sg = "in"   -> { "in", "high" }
                [] sg = "high" -> { "high" }

\* The rank-one update of A with last_z, by class: a zero z divides by
\* |z|^2 = 0 and an overflowing one multiplies 0 by inf, both giving nan; a
\* large z stretches one direction of A by about |z|.
CholeskyUpdate(M, z) ==
    IF z \in { "zero", "overflow" } THEN { "nonfinite" }
    ELSE IF z = "large" THEN { "illcond" }
    ELSE IF M = "identity" THEN { "valid" }
    ELSE { "valid", "illcond" }

\* Mutant of AppliesUpdate: the rank-one update applied on every call.
AppliesUpdateAlways(success, p) == TRUE

\* if self.lambda_success and self.p_success < self.p_thresh, with the
\* p_success this call has just computed
AppliesUpdate(success, p) == success /\ p # "high"

\* adaptCholeskyCovarianceMatrix, with checkCholeskyDegenerated
AdaptCholeskyCovarianceMatrix ==
    /\ \E p \in SmoothedSuccess(p_success, lambda_success) :
       \E sg \in SigmaStep(sigma, p) :
       \E M \in IF AppliesUpdate(lambda_success, p) THEN CholeskyUpdate(A, last_z) ELSE { A } :
          LET degenerated == CholeskyDegenerated(M, sg)
          IN  /\ sigma' = sg
              /\ sigma_mean' = IF degenerated THEN "in" ELSE sg
              /\ p_success' = IF degenerated THEN "target" ELSE p
              /\ A' = IF degenerated THEN "identity" ELSE M
              /\ p_c' = IF degenerated THEN "zero" ELSE p_c
              /\ last_call' = [op |-> "cholesky", degenerated |-> degenerated,
                              check |-> "checkCholeskyDegenerated"]
    /\ UNCHANGED << C, BD, A_inv, path, c_cov_neg, lambda_success, s_mean, last_z,
                    fitness_history >>
    /\ UNCHANGED << engineVars, schedVars, componentVars >>

\* self.c_cov_neg * q > 1, the coefficient kept as its inverse (Infinite for a
\* coefficient of 0, whose product with anything is not above 1).
ExceedsOne(inverse, q) == q > inverse

\* The coefficient the negative update uses for q = 2 * z_squared - 1: 1 / q when
\* the stored coefficient times q is above 1, the default otherwise.
NegativeCoefficient(inverse, q) ==
    IF ExceedsOne(inverse, q) THEN q ELSE DefaultNegInverse

\* self.s after (1 - c) * s + sqrt(c * (2 - c)) * A last_z^T: it stays zero only
\* from zero with a zero last_z and a finite A.
PathUpdate(sp, M, z) == IF z = "zero" /\ IsFinite(M) THEN sp ELSE "nonzero"

\* adaptActiveCovarianceMatrix, with checkCholeskyDegenerated: the positive update
\* on a success, the negative one once five fitness values are recorded (every
\* fitness is below best_fitness, which stays inf).  Both updates change A and
\* A_inv by a rank-one term of the same size; the check that follows resets what
\* checkCholeskyDegenerated resets: sigma_mean, p_success, A and p_c.
AdaptActiveCovarianceMatrix ==
    /\ \E p \in SmoothedSuccess(p_success, lambda_success) :
       \E sg \in SigmaStep(sigma, p) :
       \E M1 \in IF lambda_success THEN CholeskyUpdate(A, last_z) ELSE { A } :
       \E M \in IF fitness_history > 4 THEN CholeskyUpdate(M1, last_z) ELSE { M1 } :
       \E I1 \in IF lambda_success THEN CholeskyUpdate(A_inv, last_z) ELSE { A_inv } :
       \E I \in IF fitness_history > 4 THEN CholeskyUpdate(I1, last_z) ELSE { I1 } :
          LET degenerated == CholeskyDegenerated(M, sg)
          IN  /\ sigma' = sg
              /\ sigma_mean' = IF degenerated THEN "in" ELSE sg
              /\ p_success' = IF degenerated THEN "target" ELSE p
              /\ A' = IF degenerated THEN "identity" ELSE M
              /\ A_inv' = I
              /\ c_cov_neg' = IF fitness_history > 4
                               THEN NegativeCoefficient(c_cov_neg, TwiceSquaredLess1(last_z))
                               ELSE c_cov_neg
              /\ path' = IF lambda_success THEN PathUpdate(path, A, last_z) ELSE path
              /\ p_c' = IF degenerated THEN "zero" ELSE p_c
              /\ last_call' = [op |-> "active", degenerated |-> degenerated,
                              check |-> "checkCholeskyDegenerated"]
    /\ UNCHANGED << C, BD, lambda_success, s_mean, last_z, fitness_history >>
    /\ UNCHANGED << engineVars, schedVars, componentVars >>

AdaptNext ==
    \/ RecordMutation
    \/ AdaptCovarianceMatrix
    \/ AdaptCholeskyCovarianceMatrix
    \/ AdaptActiveCovarianceMatrix

\* ------------------------------------------------------------ the engine
\* _BaseAlgorithm.initialize
Initialize(pop, params, par, bud, run) ==
    /\ budget' = bud
    /\ parallel' = par
    /\ parameters' = params
    /\ sigma_over_time' = << >>
    /\ fitness_over_time' = << >>
    /\ generation_size' = << >>
    /\ best_individual' = [fitness |-> pop.best, run |-> run, at |-> 0]
    /\ used_budget' = 0
    /\ new_population' = Recombine(params)
    /\ population' = pop
    /\ pc' = "loop"
    /\ i' = -1
    /\ pos' = 0
    /\ improvement_found' = FALSE
    /\ fitnesses' = Inf
    /\ stopped_by' = "none"
    /\ bad_size' = FALSE
    /\ evaluated' = 0
    /\ adaptations' = 0

\* self.seq_cutoff = parameters.mu_int * parameters.seq_cutoff
SeqCutoff(params) == params.mu_int * params.seq_cutoff

\* Mutant of LoopCondition: the loop left one evaluation early.
LoopConditionEarly(used, bud) == used < bud - 1

\* while self.used_budget < budget
LoopCondition(used, bud) == used < bud

\* The head of the main loop: the while test, the TPA slots dropped, and the
\* entry into one of the two evaluation branches.
LoopTest ==
    /\ pc = "loop"
    /\ IF ~LoopCondition(used_budget, budget)
       THEN /\ pc' = "done"
            /\ stopped_by' = "while"
            /\ UNCHANGED << new_population, pos, improvement_found, fitnesses >>
       ELSE LET kept == IF parameters.tpa THEN Max2(new_population - 2, 0)
                                          ELSE new_population
            IN  /\ new_population' = kept
                /\ pos' = 0
                /\ fitnesses' = Inf
                /\ improvement_found' = IF parallel THEN improvement_found ELSE FALSE
                /\ IF parallel \/ kept > 0
                   THEN pc' = "eval"
                   ELSE \* an empty for loop: i keeps its old value, or is unbound
                        pc' = IF i < 0 THEN "raised" ELSE "select"
                /\ UNCHANGED stopped_by
    /\ UNCHANGED outside
    /\ UNCHANGED << budget, parallel, parameters, used_budget, i, population,
                    best_individual, generation_size, sigma_over_time,
                    fitness_over_time, bad_size, evaluated, adaptations >>

\* Mutant of BatchCharge: one evaluation charged, as in the one-at-a-time loop.
BatchChargeOne(params, n_off) == 1

\* What one generation of batch evaluation charges.
BatchCharge(params, n_off) == params.lambda_

\* if self.parallel: one fitnessFunction call for all offspring, lambda_ charged
BatchFitness ==
    /\ pc = "eval"
    /\ parallel
    /\ \E f \in Fitness :
          fitnesses' = IF new_population > 0 THEN f ELSE Inf
    /\ evaluated' = evaluated + new_population
    /\ used_budget' = used_budget + BatchCharge(parameters, new_population)
    /\ i' = parameters.lambda_
    /\ pc' = "select"
    /\ UNCHANGED << budget, parallel, parameters, pos, new_population, improvement_found,
                    population, best_individual, generation_size, sigma_over_time,
                    fitness_over_time, stopped_by, bad_size, adaptations >>

\* The parallel branch, with a mutation that touches nothing followed here.
BatchEvaluate == BatchFitness /\ UNCHANGED outside

\* Mutant of EarlyStop: the cutoff compared with > instead of >=.
EarlyStopLate(idx, cutoff, improved) == idx > cutoff /\ improved

\* if i >= self.seq_cutoff and improvement_found: break
EarlyStop(idx, cutoff, improved) == idx >= cutoff /\ improved

\* Mutant of BudgetStop: the loop never stops at the budget.
BudgetStopNever(used, bud) == FALSE

\* if self.used_budget == budget: break
BudgetStop(used, bud) == used = bud

\* One iteration of the one-at-a-time loop: mutate and evaluate offspring pos,
\* charge it, then the early-stop tests when parameters.sequential is set.
SequentialFitness ==
    /\ pc = "eval"
    /\ ~parallel
    /\ \E f \in Fitness :
          LET used     == used_budget + 1
              improved == IF parameters.sequential
                          THEN improvement_found \/ f < best_individual.fitness
                          ELSE improvement_found
              brk      == /\ parameters.sequential
                          /\ \/ EarlyStop(pos, SeqCutoff(parameters), improved)
                             \/ BudgetStop(used, budget)
              last     == pos + 1 >= new_population
          IN  /\ i' = pos
              /\ pos' = pos + 1
              /\ used_budget' = used
              /\ evaluated' = evaluated + 1
              /\ fitnesses' = Min2(fitnesses, f)
              /\ improvement_found' = improved
              /\ pc' = IF brk \/ last THEN "select" ELSE "eval"
    /\ UNCHANGED << budget, parallel, parameters, new_population, population,
                    best_individual, generation_size, sigma_over_time,
                    fitness_over_time, stopped_by, bad_size, adaptations >>

\* The one-at-a-time branch, with a mutation that touches nothing followed here.
SequentialStep == SequentialFitness /\ UNCHANGED outside

\* Mutant of TrackBest: an individual of equal fitness copied as well.
TrackBestOrEqual(best, cand, gen) ==
    IF cand <= best.fitness THEN [best EXCEPT !.fitness = cand, !.at = gen] ELSE best

\* if population[0].fitness < self.best_individual.fitness: copy it
TrackBest(best, cand, gen) ==
    IF cand < best.fitness THEN [best EXCEPT !.fitness = cand, !.at = gen] ELSE best

\* gen_size = self.used_budget - len(self.fitness_over_time)
GenSize(used, trace) == used - Len(trace)

\* if self.used_budget >= budget: break
BudgetReached(used, bud) == used >= bud

\* After the evaluation: unused offspring discarded, selection, the statistics
\* extended, the best individual tracked, and the budget test.
SelectTrack ==
    /\ pc = "select"
    /\ LET n_off    == Min2(new_population, i + 1)
           pop      == Select(population, n_off, fitnesses, parameters)
           gen_size == GenSize(used_budget, fitness_over_time)
       IN  /\ new_population' = n_off
           /\ population' = pop
           /\ IF pop.len = 0
              THEN \* population[0] of an empty population
                   /\ pc' = "raised"
                   /\ UNCHANGED << generation_size, sigma_over_time, fitness_over_time,
                                   best_individual, stopped_by >>
              ELSE /\ generation_size' = Append(generation_size, gen_size)
                   /\ sigma_over_time' =
                          sigma_over_time \o Repeat(parameters.sigma_mean, gen_size)
                   /\ fitness_over_time' = fitness_over_time \o Repeat(pop.best, gen_size)
                   /\ best_individual' =
                          TrackBest(best_individual, pop.best, Len(generation_size) + 1)
                   /\ IF BudgetReached(used_budget, budget)
                      THEN pc' = "done" /\ stopped_by' = "budget"
                      ELSE pc' = "recombine" /\ UNCHANGED stopped_by
    /\ UNCHANGED outside
    /\ UNCHANGED << budget, parallel, parameters, used_budget, i, pos, improvement_found,
                    fitnesses, bad_size, evaluated, adaptations >>

\* if len(population) == parameters.mu_int
SizeOk(pop, params) == pop.len = params.mu_int

\* Recombination of the selected parents, or the 'Bad population size!' message.
RecombineStep ==
    /\ pc = "recombine"
    /\ IF SizeOk(population, parameters)
       THEN new_population' = Recombine(parameters) /\ UNCHANGED bad_size
       ELSE bad_size' = TRUE /\ UNCHANGED new_population
    /\ pc' = "tpa"
    /\ UNCHANGED outside
    /\ UNCHANGED << budget, parallel, parameters, used_budget, i, pos, improvement_found,
                    fitnesses, population, best_individual, generation_size,
                    sigma_over_time, fitness_over_time, stopped_by, evaluated,
                    adaptations >>

\* Mutant of TpaCharge: the cap left out.
TpaChargeUncapped(used, bud, params) == used + 2

\* self.used_budget += 2, capped at the budget when parameters.sequential is set
TpaCharge(used, bud, params) ==
    IF used + 2 > bud /\ params.sequential THEN bud ELSE used + 2

\* parameters.localRestart(used_budget, fitnesses): whether a restart condition
\* (stagnation, degeneracy, an external check) fires is up to the search.
LocalRestartOutcomes == BOOLEAN

\* The two TPA probes, the parameter adaptation and the restart test.
TpaAdapt ==
    /\ pc = "tpa"
    /\ used_budget' = IF parameters.tpa
                      THEN TpaCharge(used_budget, budget, parameters)
                      ELSE used_budget
    /\ evaluated' = IF parameters.tpa THEN evaluated + 2 ELSE evaluated
    /\ adaptations' = adaptations + 1
    /\ \E restart \in LocalRestartOutcomes :
          /\ pc' = IF restart THEN "done" ELSE "loop"
          /\ stopped_by' = IF restart THEN "restart" ELSE stopped_by
    /\ UNCHANGED outside
    /\ UNCHANGED << budget, parallel, parameters, i, pos, new_population,
                    improvement_found, fitnesses, population, best_individual,
                    generation_size, sigma_over_time, fitness_over_time, bad_size >>

EngineNext ==
    \/ LoopTest
    \/ BatchEvaluate
    \/ SequentialStep
    \/ SelectTrack
    \/ RecombineStep
    \/ TpaAdapt

\* The parameter objects a caller can hand to baseAlgorithm.
EngineParameters ==
    [lambda_ : 1 .. MaxLambda, mu_int : 1 .. MaxMu, seq_cutoff : {1, 2},
     tpa : BOOLEAN, sequential : BOOLEAN, elitist : BOOLEAN, sigma_mean : {1}]

\* baseAlgorithm called on mu_int fresh individuals: the state after initialize().
EngineInit ==
    \E p \in EngineParameters, bud \in 1 .. MaxBudget, par \in BOOLEAN :
        /\ budget = bud
        /\ parallel = par
        /\ parameters = p
        /\ sigma_over_time = << >>
        /\ fitness_over_time = << >>
        /\ generation_size = << >>
        /\ best_individual = [fitness |-> FreshFitness, run |-> 0, at |-> 0]
        /\ used_budget = 0
        /\ new_population = Recombine(p)
        /\ population = [len |-> p.mu_int, best |-> FreshFitness]
        /\ pc = "loop"
        /\ i = -1
        /\ pos = 0
        /\ improvement_found = FALSE
        /\ fitnesses = Inf
        /\ stopped_by = "none"
        /\ bad_size = FALSE
        /\ evaluated = 0
        /\ adaptations = 0

\* The scheduler's variables when the engine is called directly.
SchedulerUnused ==
    /\ spc = "unused"
    /\ parameter_opts = [local_restart |-> "None"]
    /\ local_budget = 0
    /\ best_fitness = Inf
    /\ total_results = << >>
    /\ lambda_init = 0
    /\ lambda_large = 0
    /\ small_budget = << >>
    /\ large_budget = << >>
    /\ regime = "none"
    /\ runs = 0

\* baseAlgorithm called directly.
EngineOnlyInit == EngineInit /\ SchedulerUnused /\ AdaptInit /\ ComponentsUnused

SpecEngine == EngineOnlyInit /\ [][EngineNext]_vars

\* The engine is one sequential loop: it always takes its next step.
SpecEngineFair == SpecEngine /\ WF_vars(EngineNext)

\* ------------------------------------------------- the restart scheduler
MaxTotalBudget == 5
MaxN == 2
MaxLambdaInit == 2

\* The least integers above e^1, e^2, ...: e^k <= m for an integer m iff ExpCeil[k] <= m.
ExpCeil == << 3, 8, 21, 55, 149, 404, 1097 >>

\* floor(3 * log(n)) for 1 <= n <= 10: the number of k >= 1 with e^k <= n^3.
Floor3Log(n) == Cardinality({ k \in 1 .. Len(ExpCeil) : ExpCeil[k] <= n * n * n })

\* Mutant of DefaultLambda: four more offspring.
DefaultLambdaPlusFour(n) == 8 + Floor3Log(n)

\* int(4 + floor(3 * log(n)))
DefaultLambda(n) == 4 + Floor3Log(n)

\* Step sizes in hundredths: the default, the 2 of the large regime, and the
\* values 2e-2 * random() can take in the small regime.
InitialSigma == 100
LargeSigma == 200
SmallSigmas == { 0, 1 }

\* lambda_ values  floor(lambda_init * (.5 * lambda_large / lambda_init) ** r)  can
\* take for r in [0, 1): from lambda_init up to, not including, lambda_large / 2.
SmallLambdas(l_init, l_large) == l_init .. Max2(l_init, (l_large \div 2) - 1)

\* Parameters(**parameter_opts), with the default mu = 0.5.
MakeParameters(opts) ==
    [ lambda_    |-> opts.lambda_,
      mu_int     |-> MuInt(opts.lambda_, opts.tpa),
      seq_cutoff |-> opts.seq_cutoff,
      tpa        |-> opts.tpa,
      sequential |-> opts.sequential,
      elitist    |-> opts.elitist,
      sigma_mean |-> opts.sigma ]

\* lambda_init, from the caller's lambda_ or from n under IPOP and BIPOP
LambdaInit(opts) ==
    IF opts.lambda_ # 0 THEN opts.lambda_ ELSE DefaultLambda(opts.n)

\* The configurations the scheduler is called with: lambda_ given or left to
\* the default (0), TPA only with the at least 4 offspring it is configured with.
SchedulerOpts ==
    { o \in [ n : 1 .. MaxN, lambda_ : 0 .. MaxLambdaInit \cup {4},
              local_restart : {"None", "IPOP", "BIPOP"},
              sigma : {InitialSigma}, tpa : BOOLEAN, sequential : BOOLEAN,
              elitist : {FALSE}, seq_cutoff : {1} ] :
        /\ o.tpa => o.lambda_ \in {0, 4}
        /\ o.local_restart = "None" => o.lambda_ # 0 }

\* localRestartAlgorithm(fitnessFunction, bud, functions, o, parallel=par) up to
\* its while loop.
SchedulerStart(o, bud, par) ==
        /\ local_budget = bud
        /\ best_fitness = Inf
        /\ total_results = << >>
        /\ lambda_init = LambdaInit(o)
        /\ parameter_opts = [o EXCEPT !.lambda_ = LambdaInit(o)]
        /\ lambda_large = LambdaInit(o)
        /\ small_budget = << >>
        /\ large_budget = << >>
        /\ regime = "none"
        /\ runs = 0
        /\ spc = "loop"
        \* no engine yet
        /\ budget = 0
        /\ parallel = par
        /\ parameters = MakeParameters([o EXCEPT !.lambda_ = LambdaInit(o)])
        /\ sigma_over_time = << >>
        /\ fitness_over_time = << >>
        /\ generation_size = << >>
        /\ best_individual = [fitness |-> FreshFitness, run |-> 0, at |-> 0]
        /\ used_budget = 0
        /\ new_population = 0
        /\ population = [len |-> 0, best |-> FreshFitness]
        /\ pc = "idle"
        /\ i = -1
        /\ pos = 0
        /\ improvement_found = FALSE
        /\ fitnesses = Inf
        /\ stopped_by = "none"
        /\ bad_size = FALSE
        /\ evaluated = 0
        /\ adaptations = 0

\* localRestartAlgorithm called with any of the configurations and budgets.
SchedulerInit ==
    \E o \in SchedulerOpts, bud \in 1 .. MaxTotalBudget, par \in BOOLEAN :
        SchedulerStart(o, bud, par)

\* One pass of the while loop up to the call of baseAlgorithm: fresh parameters,
\* mu_int fresh individuals at one point, and the engine initialized.
StartRun ==
    /\ spc = "loop"
    /\ local_budget > 0
    /\ LET params == MakeParameters(parameter_opts)
       IN  Initialize([len |-> params.mu_int, best |-> FreshFitness],
                      params, parallel, local_budget, runs)
    /\ spc' = "running"
    /\ UNCHANGED << parameter_opts, local_budget, best_fitness, total_results,
                    lambda_init, lambda_large, small_budget, large_budget, regime, runs >>
    /\ UNCHANGED << adaptVars, componentVars >>

\* Mutant of Improves: a tie replaces the retained individual.
ImprovesOrTies(local_min, best) == local_min <= best

\* if min(local_results[2]) < best_fitness
Improves(local_min, best) == local_min < best

\* Mutant of ChooseRegime: ties go to the small regime.
ChooseRegimeTie(small, large) ==
    IF small >= large /\ large > 0 THEN "small" ELSE "large"

\* if small_budget > large_budget > 0: regime = 'small' else: regime = 'large'
ChooseRegime(small, large) ==
    IF small > large /\ large > 0 THEN "small" ELSE "large"

\* Mutant of IpopGrow: lambda_ grown by one instead of doubled.
IpopGrowByOne(l) == l + 1

\* parameter_opts['lambda_'] *= 2
IpopGrow(l) == l * 2

\* Mutant of MergeResults: a later run's step-size trace replaces the aggregated
\* one instead of extending it.
MergeResultsOverwrite(total, best, gen, sig, fit, ind) ==
    IF total = << >>
    THEN [total |-> << gen, sig, fit, ind >>, best |-> SeqMin(fit)]
    ELSE LET better == Improves(SeqMin(fit), best)
         IN  [total |-> << total[1] \o gen, sig, total[3] \o fit,
                           IF better THEN ind ELSE total[4] >>,
              best  |-> IF better THEN SeqMin(fit) ELSE best]

\* The results of the run merged into total_results and best_fitness.
MergeResults(total, best, gen, sig, fit, ind) ==
    IF total = << >>
    THEN [total |-> << gen, sig, fit, ind >>, best |-> SeqMin(fit)]
    ELSE LET better == Improves(SeqMin(fit), best)
         IN  [total |-> << total[1] \o gen, total[2] \o sig, total[3] \o fit,
                           IF better THEN ind ELSE total[4] >>,
              best  |-> IF better THEN SeqMin(fit) ELSE best]

\* The rest of the pass, after baseAlgorithm has returned: the budget charged,
\* the results merged, and the next lambda_ and sigma chosen.
FinishRun ==
    /\ spc = "running"
    /\ pc = "done"
    /\ LET left   == local_budget - used_budget
           merged == MergeResults(total_results, best_fitness, generation_size,
                                  sigma_over_time, fitness_over_time, best_individual)
       IN  /\ local_budget' = left
           /\ total_results' = merged.total
           /\ best_fitness' = merged.best
           /\ IF parameter_opts.local_restart = "IPOP"
              THEN /\ parameter_opts' =
                          [parameter_opts EXCEPT !.lambda_ = IpopGrow(@)]
                   /\ UNCHANGED << lambda_large, small_budget, large_budget, regime >>
              ELSE IF parameter_opts.local_restart = "BIPOP"
              THEN LET first == small_budget = << >>
                       small == IF first THEN left \div 2 ELSE small_budget[1]
                       large == IF first THEN left - (left \div 2) ELSE large_budget[1]
                       reg   == IF first THEN "large" ELSE ChooseRegime(small, large)
                   IN  /\ regime' = reg
                       /\ IF reg = "large"
                          THEN /\ large_budget' = << large - used_budget >>
                               /\ small_budget' = << small >>
                               /\ lambda_large' = lambda_large * 2
                               /\ parameter_opts' =
                                      [parameter_opts EXCEPT !.lambda_ = lambda_large * 2,
                                                             !.sigma = LargeSigma]
                          ELSE /\ small_budget' = << small - used_budget >>
                               /\ large_budget' = << large >>
                               /\ UNCHANGED lambda_large
                               /\ \E l \in SmallLambdas(lambda_init, lambda_large),
                                     sg \in SmallSigmas :
                                     parameter_opts' =
                                         [parameter_opts EXCEPT !.lambda_ = l,
                                                                !.sigma = sg]
              ELSE UNCHANGED << parameter_opts, lambda_large, small_budget,
                                large_budget, regime >>
    /\ runs' = runs + 1
    /\ spc' = "loop"
    /\ pc' = "idle"
    /\ UNCHANGED << lambda_init, budget, parallel, parameters, used_budget, i, pos,
                    new_population, improvement_found, fitnesses, population,
                    best_individual, generation_size, sigma_over_time,
                    fitness_over_time, stopped_by, bad_size, evaluated, adaptations >>
    /\ UNCHANGED << adaptVars, componentVars >>

\* while local_budget > 0 fails: return tuple(total_results)
SchedulerReturn ==
    /\ spc = "loop"
    /\ local_budget <= 0
    /\ spc' = "returned"
    /\ UNCHANGED engineVars
    /\ UNCHANGED << adaptVars, componentVars >>
    /\ UNCHANGED << parameter_opts, local_budget, best_fitness, total_results,
                    lambda_init, lambda_large, small_budget, large_budget, regime, runs >>

RestartNext ==
    \/ StartRun
    \/ LoopTest
    \/ BatchEvaluate
    \/ SequentialStep
    \/ SelectTrack
    \/ RecombineStep
    \/ TpaAdapt
    \/ FinishRun
    \/ SchedulerReturn

\* localRestartAlgorithm called.
RestartInit == SchedulerInit /\ AdaptInit /\ ComponentsUnused

SpecRestart == RestartInit /\ [][RestartNext]_vars

\* The scheduler and the engine it calls are one sequential program: it always
\* takes its next step.
SpecRestartFair == SpecRestart /\ WF_vars(RestartNext)

\* ------------------------------------- the scheduler over whole batch runs
\* Longer schedules, with each call of baseAlgorithm taken as one step: batch
\* evaluation without TPA, where a generation evaluates and charges lambda_.
MaxBatchBudget == 19

\* Generations a batch run can take before it returns: the budget test ends it
\* once used_budget >= budget, the restart criterion after any generation.
BatchGenerations(params, bud) == 1 .. ((bud + params.lambda_ - 1) \div params.lambda_)

\* baseAlgorithm(...) in batch mode without TPA, from initialize() to its return
\* after k generations whose best offspring all have fitness f.
BatchRun ==
    /\ spc = "running"
    /\ pc = "loop"
    /\ used_budget = 0
    /\ parallel
    /\ ~parameters.tpa
    /\ \E k \in BatchGenerations(parameters, budget), f \in Fitness :
          LET used == k * BatchCharge(parameters, new_population)
              pop  == Select(population, new_population, f, parameters)
              out  == BudgetReached(used, budget)
          IN  /\ used_budget' = used
              /\ evaluated' = k * new_population
              /\ fitnesses' = f
              /\ population' = pop
              /\ generation_size' = Repeat(parameters.lambda_, k)
              /\ sigma_over_time' = Repeat(parameters.sigma_mean, used)
              /\ fitness_over_time' = Repeat(f, used)
              /\ best_individual' = TrackBest(best_individual, f, 1)
              /\ adaptations' = IF out THEN k - 1 ELSE k
              /\ stopped_by' = IF out THEN "budget" ELSE "restart"
    /\ i' = parameters.lambda_
    /\ pc' = "done"
    /\ UNCHANGED outside
    /\ UNCHANGED << budget, parallel, parameters, pos, new_population,
                    improvement_found, bad_size >>

\* The scheduler called for batch evaluation with the even lambda_ the pairwise
\* configuration hands it, under IPOP or BIPOP.
BatchRestartInit ==
    /\ \E o \in SchedulerOpts, bud \in 1 .. MaxBatchBudget :
          /\ o.lambda_ = 2
          /\ o.n = 1
          /\ ~o.tpa
          /\ ~o.sequential
          /\ o.local_restart \in {"IPOP", "BIPOP"}
          /\ SchedulerStart(o, bud, TRUE)
    /\ AdaptInit
    /\ ComponentsUnused

BatchRestartNext ==
    \/ StartRun
    \/ BatchRun
    \/ FinishRun
    \/ SchedulerReturn

SpecBatchRestart == BatchRestartInit /\ [][BatchRestartNext]_vars

\* The engine's and the scheduler's variables when only a Parameters object is used.
EngineUnused ==
    /\ budget = 0
    /\ parallel = FALSE
    /\ parameters = [lambda_ |-> 0]
    /\ sigma_over_time = << >>
    /\ fitness_over_time = << >>
    /\ generation_size = << >>
    /\ best_individual = [fitness |-> FreshFitness, run |-> 0, at |-> 0]
    /\ used_budget = 0
    /\ new_population = 0
    /\ population = [len |-> 0, best |-> FreshFitness]
    /\ pc = "idle"
    /\ i = -1
    /\ pos = 0
    /\ improvement_found = FALSE
    /\ fitnesses = Inf
    /\ stopped_by = "none"
    /\ bad_size = FALSE
    /\ evaluated = 0
    /\ adaptations = 0

\* A Parameters object constructed and used on its own.
AdaptOnlyInit == AdaptInit /\ EngineUnused /\ SchedulerUnused /\ ComponentsUnused

SpecAdapt == AdaptOnlyInit /\ [][AdaptNext]_vars

\* ------------------------------------------------------ the configuration
MaxRequested == 5

\* l_bound and u_bound: ones((n, 1)) * -5 and ones((n, 1)) * 5
LBound == -5
UBound == 5

\* Values np.random.randn can return, as whole numbers.
Randn == { -1, 0, 1 }

\* if lambda_ is None: lambda_ = int(4 + floor(3 * log(n)))
DefaultedLambda(l, n) == IF l = 0 THEN DefaultLambda(n) ELSE l

\* Mutant of TpaLambda: lambda_ left as requested.
TpaLambdaKept(l, tpa) == l

\* if opts['tpa']: lambda_ is raised to 4 when it is at most 4
TpaLambda(l, tpa) == IF tpa /\ l <= 4 THEN 4 ELSE l

\* Mutant of ForceEven: an odd lambda_ reduced by one, 1 becoming 0.
ForceEvenNoPair(l) == IF l % 2 = 1 THEN l - 1 ELSE l

\* Pairwise selection: an odd lambda_ is reduced by one, and made 2 when that gives 0
ForceEven(l) ==
    IF l % 2 = 1
    THEN IF l - 1 = 0 THEN (l - 1) + 2 ELSE l - 1
    ELSE l

\* Pairwise selection with TPA: if lambda_ == 2: lambda_ += 2
PairwiseTpaLambda(l, tpa) == IF tpa /\ l = 2 THEN l + 2 ELSE l

\* A fraction mu is kept in eighths: 4 is the default 0.5.
DefaultMu == 4

\* int(1 + floor(mu * (eff_lambda - 1))), mu in eighths
MuIntOf(mu, eff_lambda) == 1 + ((mu * (eff_lambda - 1)) \div 8)

\* calculateDependencies: lambda_, eff_lambda and mu from the request; mu_int,
\* which __init__ derives from them (165), is added.
CalculateDependencies(req) ==
    LET pairwise == req.selection = "pairwise"
        l0   == DefaultedLambda(req.lambda_, req.n)
        mu0  == IF req.mu = 0 THEN DefaultMu ELSE req.mu
        l1   == TpaLambda(l0, req.tpa)
        eff1 == IF req.tpa THEN (IF l0 <= 4 THEN 2 ELSE l0 - 2) ELSE l0
        l2   == IF pairwise THEN PairwiseTpaLambda(ForceEven(l1), req.tpa) ELSE l1
        eff2 == IF pairwise THEN (IF req.tpa THEN l2 - 2 ELSE l2) ELSE eff1
        mu1  == IF pairwise /\ mu0 >= DefaultMu THEN mu0 \div 2 ELSE mu0
    IN  [defaulted |-> l0, lambda_ |-> l2, eff_lambda |-> eff2, mu |-> mu1,
         mu_int |-> MuIntOf(mu1, eff2)]

\* The samplers as they are nested, outermost first.
\* _CustomizedES.__init__: the lowest-level sampler
BaseSampler(req) ==
    IF req.base_sampler = "quasi-sobol" THEN "quasi-sobol"
    ELSE IF req.base_sampler = "quasi-halton" /\ req.halton_available THEN "quasi-halton"
    ELSE "gaussian"

\* _CustomizedES.__init__: orth_lambda, 0 when no Orthogonal sampler is made
OrthLambda(req, eff_lambda) ==
    IF ~req.orthogonal THEN 0
    ELSE IF req.mirrored THEN Max2(eff_lambda \div 2, 1) ELSE eff_lambda

\* _CustomizedES.__init__: what the object is configured with.  seq_cutoff is
\* 0 when parameter_opts gets no such entry.
ClassConfiguration(req) ==
    LET d    == CalculateDependencies(req)
        orth == << "orthogonal" >> \o << BaseSampler(req) >>
        nest == IF req.orthogonal THEN orth ELSE << BaseSampler(req) >>
    IN  [defaulted   |-> d.defaulted,
         lambda_     |-> d.lambda_,
         eff_lambda  |-> d.eff_lambda,
         mu          |-> d.mu,
         mu_int      |-> d.mu_int,
         seq_cutoff  |-> IF req.sequential /\ req.selection = "pairwise" THEN 2 ELSE 0,
         orth_lambda |-> OrthLambda(req, d.eff_lambda),
         sampler     |-> IF req.mirrored THEN << "mirrored" >> \o nest ELSE nest]

\* Mutant of FunctionOrthLambda: the batch not halved under mirroring.
FunctionOrthLambdaWhole(req, eff_lambda) ==
    IF ~req.orthogonal THEN 0 ELSE eff_lambda

\* customizedES: orth_lambda, 0 when no Orthogonal sampler is made
FunctionOrthLambda(req, eff_lambda) ==
    IF ~req.orthogonal THEN 0
    ELSE IF req.mirrored THEN Max2(eff_lambda \div 2, 1) ELSE eff_lambda

\* customizedES, from its defaults to mu_int and seq_cutoff: the same values, by
\* the function's own lines.
FunctionConfiguration(req) ==
    LET pairwise == req.selection = "pairwise"
        l0   == IF req.lambda_ = 0 THEN 4 + Floor3Log(req.n) ELSE req.lambda_
        mu0  == IF req.mu = 0 THEN 4 ELSE req.mu
        l1   == IF req.tpa /\ l0 <= 4 THEN 4 ELSE l0
        eff1 == IF req.tpa THEN (IF l0 <= 4 THEN 2 ELSE l0 - 2) ELSE l0
        l2   == IF pairwise /\ l1 % 2 = 1
                THEN (IF l1 - 1 = 0 THEN (l1 - 1) + 2 ELSE l1 - 1)
                ELSE l1
        l3   == IF pairwise /\ req.tpa /\ l2 = 2 THEN l2 + 2 ELSE l2
        eff2 == IF pairwise THEN (IF req.tpa THEN l3 - 2 ELSE l3) ELSE eff1
        mu1  == IF pairwise /\ mu0 >= 4 THEN mu0 \div 2 ELSE mu0
        base == IF req.base_sampler = "quasi-sobol" THEN "quasi-sobol"
                ELSE IF req.base_sampler = "quasi-halton" /\ req.halton_available
                     THEN "quasi-halton"
                     ELSE "gaussian"
        s1   == IF req.orthogonal THEN << "orthogonal", base >> ELSE << base >>
        s2   == IF req.mirrored THEN << "mirrored" >> \o s1 ELSE s1
    IN  [defaulted   |-> l0,
         lambda_     |-> l3,
         eff_lambda  |-> eff2,
         mu          |-> mu1,
         mu_int      |-> 1 + ((mu1 * (eff2 - 1)) \div 8),
         seq_cutoff  |-> IF req.sequential /\ pairwise THEN 2 ELSE 0,
         orth_lambda |-> FunctionOrthLambda(req, eff2),
         sampler     |-> s2]

\* The mu a caller can ask for: None (0), or 0.25, 0.5, 0.75 in eighths.
RequestedMu == { 0, 2, 4, 6 }

Requests ==
    [n : 1 .. MaxN, lambda_ : 0 .. MaxRequested, mu : RequestedMu, tpa : BOOLEAN,
     selection : {"best", "pairwise"}, sequential : BOOLEAN, mirrored : BOOLEAN,
     orthogonal : BOOLEAN, base_sampler : {"none", "quasi-sobol", "quasi-halton"},
     halton_available : BOOLEAN]

\* _CustomizedES(n, budget, mu=None, lambda_, opts) / customizedES called.
ConfigInit ==
    /\ cpc = "start"
    /\ request \in Requests
    /\ config = << >>
    /\ wcm = << >>
    /\ genotypes = << >>

\* _CustomizedES.__init__: the options resolved.
Configure ==
    /\ cpc = "start"
    /\ config' = << ClassConfiguration(request) >>
    /\ cpc' = "configured"
    /\ UNCHANGED << request, wcm, genotypes >>
    /\ UNCHANGED exceptConfig

\* customizedES: the options resolved.
ConfigureFunction ==
    /\ cpc = "start"
    /\ config' = << FunctionConfiguration(request) >>
    /\ cpc' = "configured"
    /\ UNCHANGED << request, wcm, genotypes >>
    /\ UNCHANGED exceptConfig

\* wcm = (np.random.randn(n, 1) * (u_bound - l_bound)) + l_bound
StartingPoint(z) == [k \in DOMAIN z |-> (z[k] * (UBound - LBound)) + LBound]

\* The initial population: mu_int individuals, each given a copy of wcm.
InitialPopulation ==
    /\ cpc = "configured"
    /\ \E z \in [1 .. request.n -> Randn] :
          /\ wcm' = StartingPoint(z)
          /\ genotypes' = [j \in 1 .. config[1].mu_int |-> StartingPoint(z)]
    /\ cpc' = "populated"
    /\ UNCHANGED << request, config >>
    /\ UNCHANGED exceptConfig

ConfigNext ==
    \/ Configure
    \/ ConfigureFunction
    \/ InitialPopulation

ConfigOnlyInit ==
    /\ ConfigInit
    /\ EngineUnused /\ SchedulerUnused /\ AdaptInit /\ SamplerUnused /\ HistoryUnused
    /\ SobolUnused /\ FitnessUnused

SpecConfig == ConfigOnlyInit /\ [][ConfigNext]_vars

\* ------------------------------------------------------------ the samplers
MaxCalls == 4

\* Dimensions of the sampled vectors, and the values a coordinate of a base
\* sampler's draw can take.
Dimensions == { 1, 2 }
Coordinates == { -1, 0, 1 }

\* What base_sampler.next() can return for dimension d.
BaseSamples(d) == [1 .. d -> Coordinates]

\* Mutant of Mirror: the cached sample returned as it is.
MirrorSame(v) == v

\* self.last_sample * -1
Mirror(v) == [k \in DOMAIN v |-> v[k] * (-1)]

\* MirroredSampling(n, base_sampler)
MirroredInit ==
    /\ sampler_kind = "mirrored"
    /\ sampler_n \in Dimensions
    /\ mirror_next = FALSE
    /\ last_sample = << >>
    /\ base_draws = 0
    /\ num_samples = 0
    /\ current_sample = 0
    /\ samples = << >>
    /\ returned = << >>
    /\ sampler_calls = 0
    /\ served = << >>

\* MirroredSampling.next
MirroredNext ==
    /\ sampler_kind = "mirrored"
    /\ Len(returned) < MaxCalls
    /\ mirror_next' = ~mirror_next
    /\ IF ~mirror_next
       THEN \E sample \in BaseSamples(sampler_n) :
               /\ last_sample' = << sample >>
               /\ base_draws' = base_draws + 1
               /\ returned' = Append(returned, sample)
       ELSE /\ returned' = Append(returned, Mirror(last_sample[1]))
            /\ UNCHANGED << last_sample, base_draws >>
    /\ UNCHANGED << sampler_kind, sampler_n, num_samples, current_sample, samples,
                    sampler_calls, served >>
    /\ UNCHANGED exceptSampler

\* The sampler object as a value, and MirroredSampling.next as a function of
\* it: draw is what base_sampler.next() returns if it is called.
MirroredState ==
    [mirror_next |-> mirror_next, last_sample |-> last_sample,
     base_draws |-> base_draws, returned |-> returned]

MirroredStep(st, draw) ==
    IF ~st.mirror_next
    THEN [mirror_next |-> TRUE, last_sample |-> << draw >>,
          base_draws |-> st.base_draws + 1, returned |-> Append(st.returned, draw)]
    ELSE [st EXCEPT !.mirror_next = FALSE,
                    !.returned = Append(@, Mirror(st.last_sample[1]))]

RECURSIVE MirroredCalls(_, _)
\* One call of next() after another, as many as there are entries in draws.
MirroredCalls(st, draws) ==
    IF draws = << >> THEN st
    ELSE MirroredCalls(MirroredStep(st, Head(draws)), Tail(draws))

MirroredOnlyInit ==
    /\ MirroredInit
    /\ EngineUnused /\ SchedulerUnused /\ AdaptInit /\ ConfigUnused /\ HistoryUnused
    /\ SobolUnused /\ FitnessUnused

SpecMirrored == MirroredOnlyInit /\ [][MirroredNext]_vars

\* ---------------------------------------- the engine with a Mirrored sampler
\* Vectors the mutation operator draws from the sampler for one offspring.
MutateDraws == 1

\* self.mutate(individual, parameters) for each of count offspring: the calls of
\* sampler.next() they make on the one sampler object of the configuration.
MutateOffspring(count) ==
    /\ \E draws \in [1 .. count * MutateDraws -> BaseSamples(sampler_n)] :
          LET st == MirroredCalls(MirroredState, draws)
          IN  /\ mirror_next' = st.mirror_next
              /\ last_sample' = st.last_sample
              /\ base_draws' = st.base_draws
              /\ returned' = st.returned
    /\ UNCHANGED << sampler_kind, sampler_n, num_samples, current_sample, samples,
                    sampler_calls, served >>
    /\ UNCHANGED << schedVars, adaptVars, configVars, historyVars, sobolVars,
                    fitnessVars >>

\* for ind in self.new_population: self.mutate(ind, parameters), then the batch
\* evaluated
MirroredBatchEvaluate == BatchFitness /\ MutateOffspring(new_population)

\* self.mutate(individual, parameters), then the individual evaluated
MirroredSequentialStep == SequentialFitness /\ MutateOffspring(1)

MirroredEngineNext ==
    \/ LoopTest
    \/ MirroredBatchEvaluate
    \/ MirroredSequentialStep
    \/ SelectTrack
    \/ RecombineStep
    \/ TpaAdapt

\* baseAlgorithm called with a mutation that draws from a new Mirrored sampler.
MirroredEngineInit ==
    /\ EngineInit
    /\ SchedulerUnused /\ AdaptInit /\ ConfigUnused /\ HistoryUnused
    /\ SobolUnused /\ FitnessUnused
    /\ MirroredInit
    /\ sampler_n = 1

SpecMirroredEngine == MirroredEngineInit /\ [][MirroredEngineNext]_vars

\* OrthogonalSampling.  A vector is kept exactly, up to a positive factor: the
\* model's vector is a positive multiple of the one the code holds (and zero
\* when that one is zero), which leaves every dot product's sign and zeroness
\* as it is; a vector with a nan entry is NaN, and an infinite entry is
\* Infinite or -Infinite.
MaxSamples == 2

NaN == << >>

\* Neither nan nor an infinite entry
FiniteVector(vec) ==
    vec # NaN /\ \A k \in DOMAIN vec : vec[k] # Infinite /\ vec[k] # -Infinite

\* A base sampler's draw with an infinite entry (norm.ppf of 0 or 1, say).
InfiniteDraw(d) == [k \in 1 .. d |-> IF k = 1 THEN Infinite ELSE 0]

\* What the base_sampler an OrthogonalSampling is given can return.
OrthogonalDraws(d) == BaseSamples(d) \cup { InfiniteDraw(d) }

\* dot(a.T, b), and norm(a)**2 as Dot(a, a)
Dot(a, b) == SeqSum([k \in DOMAIN a |-> a[k] * b[k]])

\* vec_i - vec_j * (dot(vec_i.T, vec_j) / norm(vec_j)**2), times norm(vec_j)**2;
\* a zero vec_j divides 0 by 0, and an infinite entry of either vector leaves
\* inf - inf, inf * 0 or inf / inf in the result
Project(vec_i, vec_j) ==
    IF ~FiniteVector(vec_i) \/ ~FiniteVector(vec_j) THEN NaN
    ELSE IF Dot(vec_j, vec_j) = 0 THEN NaN
    ELSE [k \in DOMAIN vec_i |-> vec_i[k] * Dot(vec_j, vec_j) - vec_j[k] * Dot(vec_i, vec_j)]

RECURSIVE ProjectAgainst(_, _, _)
\* for j in range(i): vectors[i] is projected off vectors[0], ..., vectors[j-1]
ProjectAgainst(vec, done, j) ==
    IF j = 0 THEN vec ELSE Project(ProjectAgainst(vec, done, j - 1), done[j])

RECURSIVE Orthogonalize(_, _)
\* The first loop of __gramSchmidt over the first m vectors
Orthogonalize(vectors, m) ==
    IF m = 0 THEN << >>
    ELSE LET done == Orthogonalize(vectors, m - 1)
         IN  Append(done, ProjectAgainst(vectors[m], done, m - 1))

\* The second loop of __gramSchmidt for one vector: vec / norm(vec), or a
\* fresh draw from the base sampler, normalized, when norm(vec) == 0; an
\* infinite entry divided by the infinite norm is nan
Normalize(vec, fresh) ==
    IF ~FiniteVector(vec) THEN NaN
    ELSE IF Dot(vec, vec) = 0
         THEN IF ~FiniteVector(fresh[1]) \/ Dot(fresh[1], fresh[1]) = 0
              THEN NaN
              ELSE fresh[1]
         ELSE vec

\* samples[i] *= lengths[i]
Rescale(vec, drawn) ==
    IF vec = NaN THEN NaN ELSE [k \in DOMAIN vec |-> vec[k] * Dot(drawn, drawn)]

\* The number of vectors __gramSchmidt is given
NumOrthogonal(num, d) == IF num <= d THEN num ELSE d

\* The fresh draws __gramSchmidt makes for the draws of a batch: none, or one
\* when a vector has collapsed to zero.  (In a batch without nan only the last
\* orthogonalized vector can be zero, a zero vector making every later one
\* nan, so one fresh draw stands for all replacements.)
FreshDraws(draws, d) ==
    LET orth == Orthogonalize(draws, NumOrthogonal(Len(draws), d))
    IN  IF \E k \in DOMAIN orth : FiniteVector(orth[k]) /\ Dot(orth[k], orth[k]) = 0
        THEN { << f >> : f \in OrthogonalDraws(d) }
        ELSE { << >> }

\* __generateSamples: the batch stored from the draws
GenerateSamples(draws, fresh, d) ==
    LET num  == NumOrthogonal(Len(draws), d)
        orth == Orthogonalize(draws, num)
    IN  [k \in 1 .. Len(draws) |->
            IF k <= num THEN Rescale(Normalize(orth[k], fresh), draws[k]) ELSE draws[k]]

\* any(isnan(samples))
InvalidSamples(batch) == \E k \in DOMAIN batch : batch[k] = NaN

\* OrthogonalSampling(n, lambda_, base_sampler)
OrthogonalInit ==
    /\ sampler_kind = "orthogonal"
    /\ sampler_n \in Dimensions
    /\ num_samples \in 1 .. MaxSamples
    /\ current_sample = 0
    /\ samples = << >>
    /\ mirror_next = FALSE
    /\ last_sample = << >>
    /\ base_draws = 0
    /\ returned = << >>
    /\ sampler_calls = 0
    /\ served = << >>

\* Mutant of NeedsNewBatch: a new batch at every call.
NeedsNewBatchAlways(current, num) == TRUE

\* if self.current_sample % self.num_samples == 0
NeedsNewBatch(current, num) == current % num = 0

\* OrthogonalSampling.next: a new batch when one is needed (drawn again until
\* it holds no nan), then the next stored sample is returned.
OrthogonalNext ==
    /\ sampler_kind = "orthogonal"
    /\ sampler_calls < MaxCalls
    /\ IF NeedsNewBatch(current_sample, num_samples)
       THEN \E draws \in [1 .. num_samples -> OrthogonalDraws(sampler_n)] :
            \E fresh \in FreshDraws(draws, sampler_n) :
               LET batch == GenerateSamples(draws, fresh, sampler_n)
               IN  /\ ~InvalidSamples(batch)
                   /\ samples' = batch
                   /\ current_sample' = 1
                   /\ served' = << batch[1] >>
       ELSE /\ current_sample' = current_sample + 1
            /\ served' = << samples[current_sample + 1] >>
            /\ UNCHANGED samples
    /\ sampler_calls' = sampler_calls + 1
    /\ UNCHANGED << sampler_kind, sampler_n, num_samples, mirror_next, last_sample,
                    base_draws, returned >>
    /\ UNCHANGED exceptSampler

OrthogonalOnlyInit ==
    /\ OrthogonalInit
    /\ EngineUnused /\ SchedulerUnused /\ AdaptInit /\ ConfigUnused /\ HistoryUnused
    /\ SobolUnused /\ FitnessUnused

SpecOrthogonal == OrthogonalOnlyInit /\ [][OrthogonalNext]_vars

\* ------------------------------------------------------ the Sobol sampler
MaxSeed == 5
MaxSeedArg == 3

\* Dimensions the sampler is constructed for.
SobolDimensions == 1 .. MaxN + 1

\* The seed argument: None, or a whole number from 0.
SeedArgs == { << >> } \cup { << k >> : k \in 0 .. MaxSeedArg }

\* numpy.random.randint(low, high): a whole number from low up to, not
\* including, high; none when low >= high, where it raises ValueError.
Randint(low, high) == low .. high - 1

\* i4_sobol(n, seed)[1], the index the generator hands back: the library's, and
\* any value at most one beyond the index it was given.
I4SobolSeed(given) == 0 .. given + 1

\* QuasiGaussianSobolSampling(n, shape, seed) called.
SobolInit ==
    /\ sobol_pc = "new"
    /\ sobol_n \in SobolDimensions
    /\ seed_arg \in SeedArgs
    /\ seed = 0
    /\ passed = << >>

\* seed is None or seed < 2
NeedsRandomSeed(arg) == arg = << >> \/ arg[1] < 2

\* QuasiGaussianSobolSampling.__init__
SobolConstruct ==
    /\ sobol_pc = "new"
    /\ IF NeedsRandomSeed(seed_arg)
       THEN IF Randint(2, sobol_n * sobol_n) = { }
            THEN sobol_pc' = "raised" /\ UNCHANGED seed
            ELSE /\ seed' \in Randint(2, sobol_n * sobol_n)
                 /\ sobol_pc' = "constructed"
       ELSE /\ seed' = seed_arg[1]
            /\ sobol_pc' = "constructed"
    /\ UNCHANGED << sobol_n, seed_arg, passed >>
    /\ UNCHANGED << engineVars, schedVars, adaptVars, configVars, samplerVars, historyVars,
                    fitnessVars >>

\* self.seed = seed if seed > 1 else 2
NextSeed(out) == IF out > 1 THEN out ELSE 2

\* QuasiGaussianSobolSampling.next
SobolNext ==
    /\ sobol_pc = "constructed"
    /\ seed < MaxSeed
    /\ passed' = << seed >>
    /\ \E out \in I4SobolSeed(seed) : seed' = NextSeed(out)
    /\ UNCHANGED << sobol_pc, sobol_n, seed_arg >>
    /\ UNCHANGED << engineVars, schedVars, adaptVars, configVars, samplerVars, historyVars,
                    fitnessVars >>

SobolActions ==
    \/ SobolConstruct
    \/ SobolNext

SobolOnlyInit ==
    /\ SobolInit
    /\ EngineUnused /\ SchedulerUnused /\ AdaptInit
    /\ ConfigUnused /\ SamplerUnused /\ HistoryUnused /\ FitnessUnused

SpecSobol == SobolOnlyInit /\ [][SobolActions]_vars

\* ------------------------------------------------------- the 1/5-th rule
\* Here sigma and sigma_mean are kept as whole numbers k, standing for the step
\* size c^(-k): 0 is the initial 1, a division by c adds one and a
\* multiplication by c takes one off.
MaxIndex == 5
MaxSigmaSteps == 2

\* self.N = 10 * self.n
WindowFactor == 10
HistorySize(n_) == WindowFactor * n_

\* The evaluation counts t the two operations are called with: the first of a
\* run, and the first after the history has wrapped around.
Times(n_) == (0 .. MaxIndex) \cup (HistorySize(n_) .. HistorySize(n_) + MaxIndex)

\* Parameters(n, ...): success_history = np.zeros((N,)), sigma = sigma_mean = 1
OneFifthInit ==
    /\ param_n \in 1 .. MaxN
    /\ success_history = [k \in 1 .. HistorySize(param_n) |-> 0]
    /\ sigma = 0
    /\ sigma_mean = 0
    /\ lambda_success = FALSE
    /\ C = "identity"
    /\ BD = "identity"
    /\ A = "identity"
    /\ A_inv = "identity"
    /\ path = "zero"
    /\ p_c = "zero"
    /\ c_cov_neg = DefaultNegInverse
    /\ p_success = "target"
    /\ s_mean = "none"
    /\ last_z = "zero"
    /\ fitness_history = 0
    /\ last_call = [op |-> "none", degenerated |-> FALSE, check |-> "none"]

\* Mutant of HistoryIndex: the index taken without wrapping around.
HistoryIndexNoWrap(t, size) == t

\* t %= self.N
HistoryIndex(t, size) == t % size

\* addToSuccessHistory(t, success); index k of the array is entry k + 1 here
AddToSuccessHistory ==
    /\ \E t \in Times(param_n), success \in BOOLEAN :
          /\ success_history' =
                 [success_history EXCEPT
                     ![HistoryIndex(t, HistorySize(param_n)) + 1] = IF success THEN 1 ELSE 0]
          /\ lambda_success' = success
          /\ last_call' = [op |-> "addToSuccessHistory", degenerated |-> FALSE,
                           check |-> "none", t |-> t, success |-> success]
    /\ UNCHANGED << param_n, C, BD, A, A_inv, path, p_c, c_cov_neg, sigma, sigma_mean,
                    p_success,
                    s_mean, last_z,
                    fitness_history >>
    /\ UNCHANGED << engineVars, schedVars, configVars, samplerVars, sobolVars, fitnessVars >>

\* The entries np.mean is taken over: success_history[:t] while t < N, all after
Window(history, t) == IF t < Len(history) THEN SubSeq(history, 1, t) ELSE history

\* Mutant of SigmaChange: the two directions exchanged.
SigmaChangeSwapped(total, count) ==
    IF count = 0 THEN 0
    ELSE IF 5 * total < count THEN 1
    ELSE IF 5 * total > count THEN -1
    ELSE 0

\* success = total / count compared with 1/5: sigma *= c (one step down) below
\* it, sigma /= c (one step up) above it; the mean of no entries is nan, which
\* is neither
SigmaChange(total, count) ==
    IF count = 0 THEN 0
    ELSE IF 5 * total < count THEN -1
    ELSE IF 5 * total > count THEN 1
    ELSE 0

\* Mutant of SkipsAdaptation: every call adapts.
SkipsAdaptationNever(t, n_) == FALSE

\* Only adapt every n evaluations: if t % self.n != 0: return
SkipsAdaptation(t, n_) == t % n_ # 0

\* oneFifthRule(t)
OneFifthRule ==
    /\ sigma > -MaxSigmaSteps
    /\ sigma < MaxSigmaSteps
    /\ \E t \in Times(param_n) :
          /\ last_call' = [op |-> "oneFifthRule", degenerated |-> FALSE,
                           check |-> "none", t |-> t]
          /\ IF SkipsAdaptation(t, param_n)
             THEN UNCHANGED << sigma, sigma_mean >>
             ELSE LET window == Window(success_history, t)
                      adapted == sigma + SigmaChange(SeqSum(window), Len(window))
                  IN  /\ sigma' = adapted
                      /\ sigma_mean' = adapted
    /\ UNCHANGED << param_n, success_history, lambda_success, C, BD, A, A_inv, path, p_c,
                    c_cov_neg,
                    p_success,
                    s_mean, last_z, fitness_history >>
    /\ UNCHANGED << engineVars, schedVars, configVars, samplerVars, sobolVars, fitnessVars >>

OneFifthNext ==
    \/ AddToSuccessHistory
    \/ OneFifthRule

OneFifthOnlyInit ==
    /\ OneFifthInit
    /\ EngineUnused /\ SchedulerUnused /\ ConfigUnused /\ SamplerUnused /\ SobolUnused
    /\ FitnessUnused

SpecOneFifth == OneFifthOnlyInit /\ [][OneFifthNext]_vars

\* -------------------------------------------------- the fitness history
MaxRecorded == 7

\* Fitness values handed to addToFitnessHistory.
RecordedFitnesses == 0 .. MaxFit

\* Parameters.__init__: self.fitness_history = []
FitnessHistoryInit ==
    /\ fitness_values = << >>
    /\ recorded = << >>

\* Mutant of DropOldest: the newest entry dropped.
DropNewest(history) ==
    IF Len(history) > HistoryLimit THEN SubSeq(history, 1, Len(history) - 1) ELSE history

\* if len(self.fitness_history) > 5: self.fitness_history = self.fitness_history[1:]
DropOldest(history) == IF Len(history) > HistoryLimit THEN Tail(history) ELSE history

\* addToFitnessHistory(t, fitness)
AddToFitnessHistory ==
    /\ Len(recorded) < MaxRecorded
    /\ \E fitness \in RecordedFitnesses :
          /\ fitness_values' = DropOldest(Append(fitness_values, fitness))
          /\ recorded' = Append(recorded, fitness)
    /\ UNCHANGED << engineVars, schedVars, adaptVars, configVars, samplerVars, historyVars,
                    sobolVars >>

FitnessHistoryNext == AddToFitnessHistory

FitnessHistoryOnlyInit ==
    /\ FitnessHistoryInit
    /\ EngineUnused /\ SchedulerUnused /\ AdaptInit
    /\ ConfigUnused /\ SamplerUnused /\ HistoryUnused /\ SobolUnused

SpecFitnessHistory == FitnessHistoryOnlyInit /\ [][FitnessHistoryNext]_vars

\* ------------------------------------------------------------------ claims
\* One-at-a-time evaluation with the early stop enabled.
SequentialMode == ~parallel /\ parameters.sequential

\* The engine has returned because the budget ran out (not by a restart).
ReturnedOnBudget == pc = "done" /\ stopped_by \in {"budget", "while"}

RoundUp(x, m) == ((x + m - 1) \div m) * m

\* A covariance representation that is numerically valid (finite, condition
\* number in range) or the identity.
ValidOrIdentity(M) == M \in { "valid", "identity" }

\* C1: when an adaptation operation returns, the representation it maintains
\* (C for adaptCovarianceMatrix, A for the two Cholesky operations) is
\* numerically valid or has been reset to the identity.
C1_ValidOrReset ==
    /\ last_call.op = "covariance" => ValidOrIdentity(C)
    /\ last_call.op \in { "cholesky", "active" } => ValidOrIdentity(A)

\* C2 as stated: in batch mode a run ended by the budget reports
\* used_budget = budget exactly.
C2_BatchExact ==
    (parallel /\ ReturnedOnBudget) => used_budget = budget

\* C2 amended: in batch mode a run ended by the budget reports at least the
\* budget; without TPA the report is the smallest multiple of lambda_ that is
\* >= budget (so the overshoot is less than lambda_, and zero exactly when
\* lambda_ divides the budget); with TPA the overshoot is less than lambda_, or
\* less than the two probes when lambda_ is below 2.
C2_BatchOvershoot ==
    (parallel /\ ReturnedOnBudget) =>
        /\ used_budget >= budget
        /\ used_budget - budget < Max2(parameters.lambda_, IF parameters.tpa THEN 2 ELSE 0)
        /\ ~parameters.tpa => used_budget = RoundUp(budget, parameters.lambda_)

\* C2 witness: a batch run without TPA that ended above its budget.
C2_Witness ==
    parallel /\ ReturnedOnBudget /\ ~parameters.tpa /\ used_budget > budget

\* C3: at the end of every generation and on return, the step-size trace and
\* the fitness trace are as long as used_budget, and the generation sizes
\* sum to it.
C3_TraceLength ==
    pc \in {"loop", "done"} =>
        /\ Len(sigma_over_time) = used_budget
        /\ Len(fitness_over_time) = used_budget
        /\ SeqSum(generation_size) = used_budget

\* C4: in sequential mode no offspring is evaluated once one with index >=
\* seq_cutoff has been evaluated and the generation holds an offspring better
\* than the best individual so far; the unevaluated offspring are dropped
\* before selection's result is recombined.
C4_EarlyStop ==
    SequentialMode =>
        /\ (pc = "eval" /\ pos > 0) =>
               ~(/\ i >= parameters.mu_int * parameters.seq_cutoff
                 /\ fitnesses < best_individual.fitness)
        /\ pc = "recombine" => new_population = pos

\* C4 witness: the loop was left early, with offspring still unevaluated and
\* budget left.
C4_Witness ==
    /\ SequentialMode
    /\ pc = "select"
    /\ i >= parameters.mu_int * parameters.seq_cutoff
    /\ fitnesses < best_individual.fitness
    /\ pos < new_population
    /\ used_budget < budget

\* C5: in sequential mode used_budget never exceeds the budget.
C5_WithinBudget == SequentialMode => used_budget <= budget

\* C5 witness: the TPA probes were charged and the cap applied: more
\* genotypes were evaluated than the budget allows.
C5_Witness ==
    /\ SequentialMode
    /\ parameters.tpa
    /\ used_budget = budget
    /\ evaluated > budget

\* A generation without a single offspring (the premise C6 excludes).
EmptyGeneration ==
    \/ pc = "raised"
    \/ pc = "select" /\ Min2(new_population, i + 1) = 0

\* C6: unless a generation has no offspring the engine eventually returns,
\* and whenever it has returned the budget is used up or a restart
\* condition fired.
C6_Terminates ==
    /\ <>(pc = "done" \/ EmptyGeneration)
    /\ [](pc = "done" => (used_budget >= budget \/ stopped_by = "restart"))

\* C6 witness: a run that returned after more than one generation.
C6_Witness == pc = "done" /\ Len(generation_size) > 1

\* C7: once selection has returned a population of the wrong size (in a
\* generation that did not exhaust the budget), nothing more is evaluated,
\* charged, recombined or adapted.
C7_FatalMismatch ==
    [][bad_size => /\ evaluated' = evaluated
                   /\ used_budget' = used_budget
                   /\ adaptations' = adaptations
                   /\ new_population' = new_population]_vars

RECURSIVE Pow2(_)
Pow2(k) == IF k = 0 THEN 1 ELSE 2 * Pow2(k - 1)

\* FinishRun is taking place: the bookkeeping after a run of the engine.
Bookkeeping == spc = "running" /\ spc' = "loop"

\* C8: under IPOP the run that follows the k-th restart has its Parameters
\* constructed from lambda_ = lambda_init * 2^k, and lambda_ never shrinks.
C8_IpopDoubles ==
    [][parameter_opts.local_restart = "IPOP" =>
          /\ spc' = "running" => parameter_opts'.lambda_ = lambda_init * Pow2(runs')
          /\ parameter_opts'.lambda_ >= parameter_opts.lambda_]_vars

\* C8 witness: the third run under IPOP is in progress.
C8_Witness ==
    parameter_opts.local_restart = "IPOP" /\ spc = "running" /\ runs = 2

\* C9 as stated: on every restart after the first, BIPOP chooses 'small'
\* exactly when the small reserve is strictly larger than the large reserve.
C9_LargerReserve ==
    [][(Bookkeeping /\ parameter_opts.local_restart = "BIPOP"
                    /\ small_budget # << >>) =>
          (regime' = "small" <=> small_budget[1] > large_budget[1])]_vars

\* C9 amended: 'small' is chosen exactly when the small reserve is strictly
\* larger than the large reserve and the large reserve is still positive;
\* 'large' otherwise.
C9_LargerReserveIfPositive ==
    [][(Bookkeeping /\ parameter_opts.local_restart = "BIPOP"
                    /\ small_budget # << >>) =>
          /\ regime' \in {"small", "large"}
          /\ regime' = "small" <=>
                (small_budget[1] > large_budget[1] /\ large_budget[1] > 0)]_vars

\* C9 witness: the choice was made with the small reserve the larger one and
\* the large reserve used up, and fell on 'large' (whose reserve was then
\* charged with used_budget).
C9_Witness ==
    /\ parameter_opts.local_restart = "BIPOP"
    /\ spc = "loop"
    /\ runs >= 2
    /\ regime = "large"
    /\ large_budget[1] + used_budget <= 0
    /\ small_budget[1] > large_budget[1] + used_budget

\* C10: the first run seeds the retained best individual; a later run
\* replaces it exactly when its fitness trace reaches strictly below the
\* whole trace aggregated before it, and then with that run's best
\* individual; the retained fitness is the minimum of the aggregated trace.
C10_BestRetained ==
    [][Bookkeeping =>
          /\ total_results'[4] =
                IF total_results = << >> THEN best_individual
                ELSE IF SeqMin(fitness_over_time) < SeqMin(total_results[3])
                     THEN best_individual
                     ELSE total_results[4]
          /\ total_results'[4].fitness = SeqMin(total_results'[3])]_vars

\* C10 witness: a later run tied the retained fitness and the individual of
\* an earlier run was kept.
C10_Witness ==
    /\ spc = "loop"
    /\ runs >= 2
    /\ total_results[4].run < best_individual.run
    /\ total_results[4].fitness = best_individual.fitness

\* The k-th trace aggregated so far (empty before the first run has returned)
\* and the k-th trace of the run that has just returned.
AggregatedTrace(k) == IF total_results = << >> THEN << >> ELSE total_results[k]
RunTrace(k) == << generation_size, sigma_over_time, fitness_over_time >>[k]

\* C11: each of the three aggregated traces is the concatenation, in restart
\* order, of the runs' traces: the bookkeeping after a run appends that run's
\* trace to what was aggregated before, and no other step touches the result.
C11_Concatenated ==
    [][IF Bookkeeping
       THEN \A k \in 1 .. 3 : total_results'[k] = AggregatedTrace(k) \o RunTrace(k)
       ELSE total_results' = total_results]_vars

\* C11 witness: the scheduler has returned after at least two runs, the last
\* of which contributed a proper suffix of the aggregated fitness trace.
C11_Witness ==
    /\ spc = "returned"
    /\ runs >= 2
    /\ Len(fitness_over_time) > 0
    /\ Len(total_results[3]) > Len(fitness_over_time)
    /\ Len(total_results[1]) > Len(generation_size)

\* C12: under pairwise selection every requested lambda_ >= 1 is configured
\* as an even lambda_ >= 2; without TPA an even one is kept, an odd one above 1
\* is reduced by one and 1 becomes 2.
C12_PairwiseEven ==
    (cpc # "start" /\ request.selection = "pairwise" /\ request.lambda_ >= 1) =>
        LET asked == request.lambda_
            got   == config[1].lambda_
        IN  /\ got % 2 = 0
            /\ got >= 2
            /\ ~request.tpa =>
                   got = IF asked % 2 = 0 THEN asked
                         ELSE IF asked > 1 THEN asked - 1 ELSE 2

\* C12 witness: lambda_ = 1 was asked for under pairwise selection without TPA.
C12_Witness ==
    /\ cpc = "configured"
    /\ request.selection = "pairwise"
    /\ ~request.tpa
    /\ request.lambda_ = 1
    /\ config[1].lambda_ = 2

\* C20: at the start of a run all individuals of the initial population have
\* the same genotype, and every coordinate of that starting point lies inside
\* the search domain [l_bound, u_bound].
C20_StartInsideDomain ==
    cpc = "populated" =>
        /\ \A j \in DOMAIN genotypes : genotypes[j] = wcm
        /\ \A k \in DOMAIN wcm : LBound <= wcm[k] /\ wcm[k] <= UBound

\* C13: the result of every even call of the Mirrored sampler's next() is the
\* negation of the result of the call before it, and the base sampler is drawn
\* from once per pair, on the odd call.
C13_MirroredPairs ==
    sampler_kind = "mirrored" =>
        /\ \A k \in 1 .. Len(returned) :
               k % 2 = 0 =>
                  \A c \in 1 .. sampler_n : returned[k][c] = 0 - returned[k - 1][c]
        /\ base_draws = (Len(returned) + 1) \div 2

\* C13 witness: two pairs were served, the first one from a draw that is
\* not its own negation.
C13_Witness ==
    /\ sampler_kind = "mirrored"
    /\ Len(returned) = 4
    /\ returned[1] # returned[2]
    /\ base_draws = 2

\* C14: in every batch the Orthogonal sampler stores, the first
\* min(lambda_, n) vectors are pairwise orthogonal.
C14_PairwiseOrthogonal ==
    (sampler_kind = "orthogonal" /\ samples # << >>) =>
        \A a, b \in 1 .. Min2(num_samples, sampler_n) :
            a < b => Dot(samples[a], samples[b]) = 0

\* The success rate oneFifthRule(t) sees, as total successes and entries.
RuleTotal == SeqSum(Window(success_history, last_call'.t))
RuleCount == Len(Window(success_history, last_call'.t))

\* C15: oneFifthRule(t) with t a multiple of n divides sigma by c when the
\* mean success rate over the window is above 1/5, multiplies it by c when the
\* rate is below 1/5 and leaves it when the rate is exactly 1/5; sigma_mean
\* equals sigma afterwards.
C15_OneFifth ==
    [][(last_call'.op = "oneFifthRule" /\ last_call'.t % param_n = 0) =>
          /\ (RuleCount > 0 /\ 5 * RuleTotal > RuleCount) => sigma' = sigma + 1
          /\ (RuleCount > 0 /\ 5 * RuleTotal < RuleCount) => sigma' = sigma - 1
          /\ (RuleCount > 0 /\ 5 * RuleTotal = RuleCount) => sigma' = sigma
          /\ sigma_mean' = sigma']_vars

\* C15 witness: the rule has returned after a call on a full window holding
\* exactly one success in five, sigma having moved before.
C15_Witness ==
    /\ last_call.op = "oneFifthRule"
    /\ last_call.t >= HistorySize(param_n)
    /\ last_call.t % param_n = 0
    /\ 5 * SeqSum(success_history) = Len(success_history)
    /\ sigma # 0
    /\ sigma_mean = sigma

\* C16: the success history keeps its length 10 * n; addToSuccessHistory(t,
\* success) overwrites the entry at index t mod (10 * n) with the flag, leaves
\* every other entry as it was, and lambda_success holds the latest flag.
C16_RingBuffer ==
    [][/\ Len(success_history') = 10 * param_n
       /\ last_call'.op = "addToSuccessHistory" =>
             LET at   == (last_call'.t % (10 * param_n)) + 1
                 flag == IF last_call'.success THEN 1 ELSE 0
             IN  /\ success_history'[at] = flag
                 /\ \A k \in 1 .. 10 * param_n :
                        k # at => success_history'[k] = success_history[k]
                 /\ lambda_success' = last_call'.success]_vars

\* C16 witness: a call with t beyond the history's length has overwritten a
\* recorded success at index t mod (10 * n).
C16_Witness ==
    /\ last_call.op = "addToSuccessHistory"
    /\ last_call.t >= 10 * param_n
    /\ ~last_call.success
    /\ success_history[(last_call.t % (10 * param_n)) + 1] = 0
    /\ SeqSum(success_history) >= 2

\* C17: every call of an adaptation operation that changes the adapted state
\* ends with a degeneracy check.
C17_CheckedLast ==
    [][(/\ last_call'.op \in { "oneFifthRule", "covariance", "cholesky", "active" }
        /\ << C, BD, A, A_inv, path, p_c, sigma, sigma_mean, p_success >>' #
              << C, BD, A, A_inv, path, p_c, sigma, sigma_mean, p_success >>) =>
           last_call'.check # "none"]_vars

\* C18: when an adaptation call has detected degeneracy, on return every
\* matrix of its variant is the identity (C, B and D; A; A and A_inv for the
\* active variant), the path and probability state is at its initial value
\* (p_c = 0, s = 0, p_success = p_target) and sigma_mean is back at 1.
C18_ResetOnDegeneracy ==
    last_call.degenerated =>
        /\ sigma_mean = "in"
        /\ last_call.op = "covariance" => C = "identity" /\ BD = "identity"
        /\ last_call.op = "cholesky" =>
               A = "identity" /\ p_c = "zero" /\ p_success = "target"
        /\ last_call.op = "active" =>
               /\ A = "identity" /\ A_inv = "identity"
               /\ p_c = "zero" /\ path = "zero" /\ p_success = "target"

\* C19: when a Cholesky-style adaptation call has returned, sigma and
\* sigma_mean both lie within [1e-16, 1e16].
C19_SigmaBounded ==
    last_call.op \in { "cholesky", "active" } =>
        SigmaInRange(sigma) /\ SigmaInRange(sigma_mean)

\* 3 * ln(n) for n = 1, 2, 3, 4 is 0, 2.07.., 3.29.., 4.15..
FloorOfThreeLn == << 0, 2, 3, 4 >>

\* C21 as stated: with no lambda_ supplied, the default offspring count is
\* floor(4 + 3 * ln(n)) + 4.
C21_DefaultPlusFour ==
    (cpc # "start" /\ request.lambda_ = 0) =>
        config[1].defaulted = (4 + FloorOfThreeLn[request.n]) + 4

\* C21 amended: with no lambda_ supplied, the default offspring count is
\* 4 + floor(3 * ln(n)).
C21_Default ==
    (cpc # "start" /\ request.lambda_ = 0) =>
        config[1].defaulted = 4 + FloorOfThreeLn[request.n]

\* C21 witness: a configuration with no lambda_ supplied in a dimension where
\* the logarithm counts, left as defaulted.
C21_Witness ==
    /\ cpc = "configured"
    /\ request.lambda_ = 0
    /\ request.n > 1
    /\ config[1].lambda_ = config[1].defaulted
    /\ config[1].defaulted > 4

\* C22: for every dimension and every seed argument the construction of the
\* Sobol sampler succeeds with a stored index of at least 2, the stored index
\* is at least 2 after every next(), and index 1 is never given to the
\* sequence generator.
C22_SobolIndex ==
    sobol_pc # "new" =>
        /\ sobol_pc = "constructed"
        /\ seed >= 2
        /\ passed # << 1 >>

\* C23: oneFifthRule(t) with t not a multiple of n changes nothing: sigma,
\* sigma_mean and the success history are as before.
C23_OnlyEveryN ==
    [][(last_call'.op = "oneFifthRule" /\ last_call'.t % param_n # 0) =>
          /\ sigma' = sigma
          /\ sigma_mean' = sigma_mean
          /\ success_history' = success_history
          /\ lambda_success' = lambda_success]_vars

\* C23 witness: the rule has returned from a call with t not a multiple of n
\* whose window held a success rate other than 1/5, and sigma is still 1.
C23_Witness ==
    /\ last_call.op = "oneFifthRule"
    /\ last_call.t % param_n # 0
    /\ 5 * SeqSum(Window(success_history, last_call.t)) >
          Len(Window(success_history, last_call.t))
    /\ sigma = 0
    /\ sigma_mean = 0

\* C24: adaptCholeskyCovarianceMatrix updates A only when the last mutation
\* was successful and the p_success computed in the call is below p_thresh; in
\* every other call A is as before, or the identity when the degeneracy check
\* has reset it.
C24_UpdateOnlyOnSuccess ==
    [][last_call'.op = "cholesky" =>
          /\ last_call'.degenerated => A' = "identity"
          /\ (~last_call'.degenerated /\ ~(lambda_success /\ p_success' # "high")) =>
                A' = A]_vars

\* C24 witness: the adaptation has returned after an unsuccessful mutation,
\* with p_success moved, no degeneracy found and A still the identity.
C24_Witness ==
    /\ last_call.op = "cholesky"
    /\ ~last_call.degenerated
    /\ ~lambda_success
    /\ p_success = "low"
    /\ last_z = "moderate"
    /\ A = "identity"

\* c_cov_neg * q <= 1 for the coefficient kept as its inverse; 0 * inf is nan,
\* which is not <= 1.
AtMostOne(inverse, q) == IF inverse = Infinite /\ q = Infinite THEN FALSE ELSE q <= inverse

\* C25: whenever adaptActiveCovarianceMatrix applies the negative update, the
\* coefficient it uses satisfies c_cov_neg * (2 * |z|^2 - 1) <= 1 for the
\* current mutation vector z.
C25_Clamped ==
    [][(/\ last_call'.op = "active"
        /\ << s_mean, last_z, lambda_success, fitness_history >>' =
              << s_mean, last_z, lambda_success, fitness_history >>
        /\ fitness_history > 4) =>
           AtMostOne(c_cov_neg', TwiceSquaredLess1(last_z))]_vars

\* C26: after k calls of addToFitnessHistory, fitness_history holds the most
\* recent min(k, 5) recorded values in recording order; it never holds more
\* than 5.
C26_LastFive ==
    LET k == Len(recorded)
        m == IF k < 5 THEN k ELSE 5
    IN  /\ Len(fitness_values) = m
        /\ \A j \in 1 .. m : fitness_values[j] = recorded[k - m + j]

\* C26 witness: seven values recorded, the two oldest dropped and the third,
\* which differs from both, now the first of the history.
C26_Witness ==
    /\ Len(recorded) = 7
    /\ recorded[1] = recorded[2]
    /\ recorded[3] # recorded[2]
    /\ recorded[7] # recorded[3]
    /\ Len(fitness_values) = 5
    /\ fitness_values[1] = recorded[3]
    /\ fitness_values[5] = recorded[7]

\* C27: the tracked best individual is replaced only by the first individual
\* of a newly selected population of strictly lower fitness: its fitness never
\* increases, and an individual of equal fitness never replaces it.
C27_StrictImprovement ==
    [][/\ best_individual'.fitness <= best_individual.fitness
       /\ best_individual' # best_individual =>
             /\ pc = "select"
             /\ population'.best < best_individual.fitness
             /\ best_individual'.fitness = population'.best]_vars

\* C27 witness: the second generation's selection put an individual of the
\* fitness of the tracked best first, and the best of generation 1 was kept.
C27_Witness ==
    /\ Len(generation_size) = 2
    /\ best_individual.at = 1
    /\ population.best = best_individual.fitness
    /\ ~parameters.elitist

\* C28: every entry appended to the fitness trace is the best fitness found
\* so far in the run; the trace never increases.
C28_BestSoFar ==
    /\ \A k \in 1 .. Len(fitness_over_time) - 1 :
          fitness_over_time[k + 1] <= fitness_over_time[k]
    /\ (fitness_over_time # << >> /\ pc # "select") =>
          fitness_over_time[Len(fitness_over_time)] = best_individual.fitness

\* C29: the scheduler terminates; every restart consumes at least one
\* evaluation and leaves strictly less budget; no run starts with a remaining
\* budget <= 0; in sequential mode the remaining budget never goes below 0 and
\* is exactly 0 when the scheduler returns.
C29_Terminates ==
    /\ <>(spc = "returned")
    /\ [][/\ (spc = "running" /\ spc' = "loop") =>
                 (used_budget >= 1 /\ local_budget' < local_budget)
          /\ (spc = "loop" /\ spc' = "running") => local_budget > 0]_vars
    /\ [](SequentialMode => local_budget >= 0)
    /\ []((SequentialMode /\ spc = "returned") => local_budget = 0)

\* C29 witness: in sequential mode the scheduler has returned after three
\* runs, the budget used up exactly.
C29_Witness ==
    /\ spc = "returned"
    /\ SequentialMode
    /\ runs = 3
    /\ local_budget = 0
    /\ Len(total_results[3]) >= 4

\* C30: under BIPOP, once the reserves exist, after the bookkeeping of every
\* restart the large reserve plus the small reserve equals the remaining
\* total budget.
C30_ReservesPartition ==
    (spc = "loop" /\ small_budget # << >>) =>
        small_budget[1] + large_budget[1] = local_budget

\* C31: under BIPOP the budget a run has consumed is subtracted from the
\* reserve of the regime that run was executed in, and the other reserve is
\* left as it was.
C31_ChargedToOwnRegime ==
    [][(/\ spc = "running" /\ spc' = "loop"
        /\ parameter_opts.local_restart = "BIPOP"
        /\ small_budget # << >>) =>
           /\ regime = "small" =>
                 /\ small_budget'[1] = small_budget[1] - used_budget
                 /\ large_budget' = large_budget
           /\ regime = "large" =>
                 /\ large_budget'[1] = large_budget[1] - used_budget
                 /\ small_budget' = small_budget]_vars

\* C32: with the even lambda_ of a pairwise configuration handed to the restart
\* scheduler, the lambda_ every run's Parameters object is constructed with is
\* even, under IPOP and in both regimes of BIPOP.
C32_EvenLambda ==
    (spc = "running" /\ lambda_init % 2 = 0) => parameters.lambda_ % 2 = 0

\* C33: with the Mirrored sampler and a mutation that draws one vector per
\* offspring, the first offspring mutated in a generation receives a fresh draw
\* of the base sampler: no mirrored pair straddles two generations.
C33_PairWithinGeneration ==
    (sampler_kind = "mirrored" /\ pc = "eval" /\ pos = 0) => ~mirror_next

\* C34: when the local-restart scheduler returns, the 'lambda_' and 'sigma'
\* entries of the configuration it was called with are what they were at the
\* call (lambda_init is the caller's lambda_ whenever one was given).
C34_OptionsKept ==
    spc = "returned" =>
        /\ parameter_opts.lambda_ = lambda_init
        /\ parameter_opts.sigma = InitialSigma

\* C35: for every n, requested lambda_, requested mu and options, the class
\* _CustomizedES and the function customizedES derive the same lambda_,
\* effective lambda, mu, mu_int, seq_cutoff, orthogonal batch size and sampler
\* nesting: whichever of the two has configured, the result is what both give.
C35_SameConfiguration ==
    cpc # "start" =>
        /\ config[1] = ClassConfiguration(request)
        /\ config[1] = FunctionConfiguration(request)

\* Pairwise selection, TPA, a requested mu of 0.75, sequential evaluation and a
\* Mirrored sampler over an Orthogonal one over Sobol: every branch taken.
C35_Witness ==
    /\ cpc = "configured"
    /\ request.selection = "pairwise" /\ request.tpa /\ request.sequential
    /\ request.lambda_ = 5 /\ request.mu = 6
    /\ request.mirrored /\ request.orthogonal /\ request.base_sampler = "quasi-sobol"
    /\ config[1] = [defaulted |-> 5, lambda_ |-> 4, eff_lambda |-> 2, mu |-> 3,
                    mu_int |-> 1, seq_cutoff |-> 2, orth_lambda |-> 1,
                    sampler |-> << "mirrored", "orthogonal", "quasi-sobol" >>]

\* C36: for a requested lambda_ >= 1 and either selection policy, with TPA the
\* configured lambda_ is at least 4 and the effective offspring count is
\* lambda_ - 2; without TPA the effective offspring count is lambda_.
C36_EffectiveLambda ==
    (cpc # "start" /\ request.lambda_ >= 1) =>
        /\ request.tpa =>
              /\ config[1].lambda_ >= 4
              /\ config[1].eff_lambda = config[1].lambda_ - 2
        /\ ~request.tpa => config[1].eff_lambda = config[1].lambda_

\* TPA with 3 offspring requested: lambda_ raised to 4, 2 of them effective.
C36_Witness ==
    /\ cpc = "configured"
    /\ request.tpa
    /\ request.lambda_ = 3
    /\ config[1].lambda_ = 4
    /\ config[1].eff_lambda = 2

\* C37: the Orthogonal sampler generates a batch only on the calls number 1,
\* lambda_ + 1, 2 * lambda_ + 1, ... of next(); call number j returns element
\* (j - 1) mod lambda_ of the batch it holds, and the serving index stays within
\* 1 .. lambda_ after every call.
C37_ServedInOrder ==
    [][(sampler_kind = "orthogonal" /\ sampler_calls' = sampler_calls + 1) =>
          LET j == sampler_calls'
          IN  /\ current_sample' = ((j - 1) % num_samples) + 1
              /\ current_sample' \in 1 .. num_samples
              /\ served' = << samples'[current_sample'] >>
              /\ samples' # samples => (j - 1) % num_samples = 0
              /\ (j - 1) % num_samples = 0 => samples' # << >>]_vars

\* C37 witness: with batches of two, the third call has started a second batch
\* and the fourth has served its second element.
C37_Witness ==
    /\ sampler_kind = "orthogonal"
    /\ num_samples = 2
    /\ sampler_calls = 4
    /\ current_sample = 2
    /\ served = << samples[2] >>

\* C38: every vector the Orthogonal sampler serves has only finite components,
\* whatever the base sampler returns.
C38_ServedFinite ==
    (sampler_kind = "orthogonal" /\ served # << >>) => FiniteVector(served[1])

\* C39: when the generational engine returns, used_budget is the number of
\* genotypes it has handed to the fitness evaluator (offspring and TPA probes).
C39_UsedIsEvaluated ==
    pc = "done" => used_budget = evaluated

====
